---- MODULE Spec2Model ----
(***************************************************************************)
(* Model of the job-agent scoring pipeline (src/src/score_new_jobs.py,     *)
(* src/src/pipeline.py, src/src/utils.py).                                 *)
(*                                                                         *)
(* Text is modelled as a sequence of tokens.  Every token stands for a     *)
(* literal substring of the Python string: "x" is one word character,      *)
(* "BODY" is a block of 600 word characters, "sp"/"nl"/"cr" are a space,   *)
(* a line feed and a carriage return, "<br>", "<li>", "</li>", "<img>",    *)
(* "<script>", "</script>", "<style>", "</style>", "<p>" are complete tags,*)
(* "&lt;", "&gt;", "&amp;" are escaped entities and "<", ">", "&", "-" are *)
(* bare characters.                                                        *)
(***************************************************************************)
EXTENDS Integers, Sequences, FiniteSets, TLC

\* ------------------------------------------------------------------ text

CLEAN_MIN_LEN == 600

Whitespace == {"sp", "nl", "cr"}

TagToks == {"<br>", "<li>", "</li>", "<img>", "<script>", "</script>",
            "<style>", "</style>", "<p>"}

TokLen(t) ==
    CASE t = "BODY" -> 600
      [] t \in {"<br>", "<li>", "&lt;", "&gt;"} -> 4
      [] t \in {"</li>", "<img>", "&amp;"} -> 5
      [] t \in {"<script>"} -> 8
      [] t \in {"</script>"} -> 9
      [] t \in {"<style>"} -> 7
      [] t \in {"</style>"} -> 8
      [] t = "<p>" -> 3
      [] OTHER -> 1

RECURSIVE StrLen(_)
StrLen(s) == IF s = <<>> THEN 0 ELSE TokLen(Head(s)) + StrLen(Tail(s))

RECURSIVE LStrip(_)
LStrip(s) ==
    IF s = <<>> THEN s
    ELSE IF Head(s) \in Whitespace THEN LStrip(Tail(s)) ELSE s

RECURSIVE RStrip(_)
RStrip(s) ==
    IF s = <<>> THEN s
    ELSE IF s[Len(s)] \in Whitespace THEN RStrip(SubSeq(s, 1, Len(s) - 1)) ELSE s

\* Python's str.strip()
Strip(s) == RStrip(LStrip(s))

\* index of the first occurrence of a token of set T at or after position i, 0 if none
RECURSIVE FirstIn(_, _, _)
FirstIn(s, T, i) ==
    IF i > Len(s) THEN 0
    ELSE IF s[i] \in T THEN i ELSE FirstIn(s, T, i + 1)

\* re.sub(r'<open[^>]*>.*?</open>', '', text): every block from an opening tag to
\* the nearest closing tag is removed; an opening tag that is never closed stays
RECURSIVE RemoveBlocks(_, _, _)
RemoveBlocks(s, open, close) ==
    LET i == FirstIn(s, {open}, 1)
        j == IF i = 0 THEN 0 ELSE FirstIn(s, {close}, i + 1)
    IN  IF i = 0 \/ j = 0 THEN s
        ELSE SubSeq(s, 1, i - 1) \o RemoveBlocks(SubSeq(s, j + 1, Len(s)), open, close)

\* every token t of s replaced by the token sequence r
RECURSIVE ReplaceTok(_, _, _)
ReplaceTok(s, t, r) ==
    IF s = <<>> THEN <<>>
    ELSE (IF Head(s) = t THEN r ELSE <<Head(s)>>) \o ReplaceTok(Tail(s), t, r)

\* re.sub(r'<[^>]+>', '', text): a complete tag is removed; a bare "<" followed by
\* at least one character other than ">" and then a ">" is removed up to that ">"
RECURSIVE StripTags(_)
StripTags(s) ==
    IF s = <<>> THEN <<>>
    ELSE IF Head(s) \in TagToks THEN StripTags(Tail(s))
    ELSE IF Head(s) = "<"
    THEN LET j == FirstIn(s, TagToks \cup {">"}, 2)
         IN  IF j = 0 \/ (j = 2 /\ s[2] = ">")
             THEN <<"<">> \o StripTags(Tail(s))
             ELSE StripTags(SubSeq(s, j + 1, Len(s)))
    ELSE <<Head(s)>> \o StripTags(Tail(s))

\* html.unescape on the entities of the alphabet
Unescape(s) ==
    ReplaceTok(ReplaceTok(ReplaceTok(s, "&lt;", <<"<">>), "&gt;", <<">">>), "&amp;", <<"&">>)

\* text.replace('\r\n', '\n').replace('\r', '\n')
RECURSIVE NormalizeNewlines(_)
NormalizeNewlines(s) ==
    IF s = <<>> THEN <<>>
    ELSE IF Head(s) = "cr" /\ Len(s) >= 2 /\ s[2] = "nl"
    THEN <<"nl">> \o NormalizeNewlines(SubSeq(s, 3, Len(s)))
    ELSE IF Head(s) = "cr" THEN <<"nl">> \o NormalizeNewlines(Tail(s))
    ELSE <<Head(s)>> \o NormalizeNewlines(Tail(s))

\* '\n'.join(line.strip() for line in text.split('\n'))
RECURSIVE StripLines(_)
StripLines(s) ==
    LET i == FirstIn(s, {"nl"}, 1)
    IN  IF i = 0 THEN Strip(s)
        ELSE Strip(SubSeq(s, 1, i - 1)) \o <<"nl">> \o StripLines(SubSeq(s, i + 1, Len(s)))

\* re.sub(r'\n\s*\n+', '\n\n', text) on text whose lines are already stripped:
\* a run of two or more line feeds becomes exactly two
RECURSIVE CollapseBlankLines(_)
CollapseBlankLines(s) ==
    IF s = <<>> THEN <<>>
    ELSE IF Len(s) >= 3 /\ s[1] = "nl" /\ s[2] = "nl" /\ s[3] = "nl"
    THEN CollapseBlankLines(Tail(s))
    ELSE <<Head(s)>> \o CollapseBlankLines(Tail(s))

clean_html_to_text(raw) ==
    IF raw = <<>> THEN <<>>
    ELSE LET t1 == RemoveBlocks(raw, "<script>", "</script>")
             t2 == RemoveBlocks(t1, "<style>", "</style>")
             t3 == ReplaceTok(t2, "<img>", <<>>)
             t4 == ReplaceTok(t3, "<br>", <<"nl">>)
             t5 == ReplaceTok(ReplaceTok(t4, "<li>", <<"-", "sp">>), "</li>", <<"nl">>)
             t6 == StripTags(t5)
             t7 == Unescape(t6)
             t8 == NormalizeNewlines(t7)
             t9 == StripLines(t8)
         IN  Strip(CollapseBlankLines(t9))

\* ------------------------------------------------------ Python values

\* A Python value is a record [t, v]: t its type, v its content.  A str is a token
\* sequence (one token per word), a list a sequence of values, a dict a function
\* from key names to values.
PyNone == [t |-> "none", v |-> 0]
PyInt(n) == [t |-> "int", v |-> n]
PyStr(toks) == [t |-> "str", v |-> toks]
PyList(items) == [t |-> "list", v |-> items]
PyDict(d) == [t |-> "dict", v |-> d]
PyBool(b) == [t |-> "bool", v |-> b]
\* a finite float, held in tenths (4.7 is PyFloat(47)); json.loads also yields
\* the floats inf, -inf (from Infinity or 1e999) and nan
PyFloat(tenths) == [t |-> "float", v |-> tenths]
PyInf == [t |-> "inf", v |-> 0]
PyNaN == [t |-> "nan", v |-> 0]
EmptyDict == PyDict([k \in {} |-> PyNone])

\* Python truthiness (bool(x))
Truthy(x) ==
    CASE x.t = "none" -> FALSE
      [] x.t = "int" -> x.v # 0
      [] x.t = "bool" -> x.v
      [] x.t = "float" -> x.v # 0
      [] x.t = "str" -> x.v # <<>>
      [] x.t = "list" -> x.v # <<>>
      [] x.t = "dict" -> DOMAIN x.v # {}
      [] OTHER -> TRUE

\* dict.get(key, default)
DictGet(x, key, default) == IF key \in DOMAIN x.v THEN x.v[key] ELSE default

\* The text an LLM call returns, or a cached JSON field holds.  form "exact": the
\* whole text is the JSON document val; "embedded": the text is not JSON but
\* holds one {...} or [...] span that is the JSON document val; "garbage":
\* neither.
JsonExact(val) == [form |-> "exact", val |-> val]
JsonEmbedded(val) == [form |-> "embedded", val |-> val]
JsonGarbage == [form |-> "garbage", val |-> PyNone]

safe_parse_json(text) ==
    IF text.form = "exact" THEN text.val
    ELSE IF text.form = "embedded"
    THEN IF text.val.t = "list" THEN PyDict([k \in {"_list"} |-> text.val])
         ELSE IF text.val.t = "dict" THEN text.val
         ELSE PyNone
    ELSE PyNone

\* str(x).strip() != "" for the items of a list of words
RECURSIVE KeepNonBlank(_)
KeepNonBlank(items) ==
    IF items = <<>> THEN <<>>
    ELSE (IF Head(items).t = "none" \/ (Head(items).t = "str" /\ Strip(Head(items).v) = <<>>)
          THEN <<>> ELSE <<Head(items)>>) \o KeepNonBlank(Tail(items))

\* utils.join_lines: the lines of the joined text, one per kept item (a value
\* that is not a list gives the one line str(value))
join_lines(x) ==
    IF x.t = "none" THEN <<>>
    ELSE IF x.t = "list" THEN KeepNonBlank(x.v)
    ELSE <<x>>

\* utils.merge_notes on texts given as their lines
merge_notes(a, b) == a \o b

\* ------------------------------------------------------- scorer engine

KnownEngines == {"v1", "perfecter_v1"}

\* load_scorer_prompt: TRUE when a prompt is returned, FALSE when it raises
\* ValueError (unknown engine).  The prompt file of perfecter_v1 is taken to exist.
load_scorer_prompt(engine_name) == engine_name \in KnownEngines

ScorerRequiredKeys ==
    {"fit_score", "next_action", "fit_reasons", "gaps_risks", "non_obvious_matches",
     "keywords_to_tailor_resume", "questions_to_verify", "confidence",
     "needs_human_input", "debug"}

ValidActions == {"Apply Now", "Apply", "Network First", "Skip"}

\* `not score or not required_keys.issubset(score.keys())`: "invalid", "valid", or
\* "raise" when score is a truthy value without keys() (AttributeError)
ScoreCheck(score) ==
    IF ~Truthy(score) THEN "invalid"
    ELSE IF score.t # "dict" THEN "raise"
    ELSE IF ScorerRequiredKeys \subseteq DOMAIN score.v THEN "valid"
    ELSE "invalid"

Clamp15(n) == IF n < 1 THEN 1 ELSE IF n > 5 THEN 5 ELSE n

\* the words Python's int() reads as an integer literal, and their values
IntLiteral == ("0" :> 0) @@ ("1" :> 1) @@ ("4" :> 4) @@ ("9" :> 9) @@ ("-2" :> -2)

\* a float in tenths cut towards zero
Trunc(tenths) == IF tenths >= 0 THEN tenths \div 10 ELSE -((-tenths) \div 10)

\* Python's int(x): the integer, or the exception raised
PyIntOf(x) ==
    CASE x.t = "int" -> [exc |-> "none", v |-> x.v]
      [] x.t = "bool" -> [exc |-> "none", v |-> IF x.v THEN 1 ELSE 0]
      [] x.t = "float" -> [exc |-> "none", v |-> Trunc(x.v)]
      [] x.t = "nan" -> [exc |-> "ValueError", v |-> 0]
      [] x.t = "inf" -> [exc |-> "OverflowError", v |-> 0]
      [] x.t = "str" -> LET w == Strip(x.v)
                        IN  IF Len(w) = 1 /\ w[1] \in DOMAIN IntLiteral
                            THEN [exc |-> "none", v |-> IntLiteral[w[1]]]
                            ELSE [exc |-> "ValueError", v |-> 0]
      [] OTHER -> [exc |-> "TypeError", v |-> 0]

\* lines 262-264: fit_score, else the first truthy alias
FitScoreRaw(score) ==
    LET first == DictGet(score, "fit_score", PyNone)
        a1 == DictGet(score, "score", PyNone)
        a2 == DictGet(score, "FitScore", PyNone)
        a3 == DictGet(score, "fitScore", PyNone)
    IN  IF first.t # "none" THEN first
        ELSE IF Truthy(a1) THEN a1
        ELSE IF Truthy(a2) THEN a2
        ELSE a3

\* lines 265-269: `int(x) if x is not None else 3` under
\* `except (ValueError, TypeError)`, then the clamp; "OverflowError" when int()
\* raises what the handler does not catch
ClampedInt(raw) ==
    LET c == PyIntOf(raw)
    IN  IF raw.t = "none" THEN [exc |-> "none", v |-> 3]
        ELSE IF c.exc = "none" THEN [exc |-> "none", v |-> Clamp15(c.v)]
        ELSE IF c.exc \in {"ValueError", "TypeError"} THEN [exc |-> "none", v |-> 3]
        ELSE [exc |-> c.exc, v |-> 0]

\* TRUE when the normalisation of lines 262-269 ends by an exception
FitScoreRaises(score) == ClampedInt(FitScoreRaw(score)).exc # "none"

\* lines 262-269: the normalised fit score
NormalizeFitScore(score) == ClampedInt(FitScoreRaw(score)).v

FitToAction(fit) ==
    IF fit = 5 THEN "Apply Now"
    ELSE IF fit = 4 THEN "Apply"
    ELSE IF fit \in {3, 2} THEN "Network First"
    ELSE "Skip"

\* lines 271-285
NormalizeNextAction(score, fit) ==
    LET na == DictGet(score, "next_action", PyNone)
        stripped == IF na.t = "str" THEN Strip(na.v) ELSE <<>>
    IN  IF na.t = "str" /\ Len(stripped) = 1 /\ stripped[1] \in ValidActions
        THEN stripped[1]
        ELSE FitToAction(fit)

\* The result of a valid response (lines 296-306).
\* lines 287-292: the confidence of the result.  float(confidence) of anything
\* but the literal "N/A"; a ValueError or TypeError gives "N/A".  Floats are held
\* in tenths, as PyFloat does.
NormalizeConfidence(score) ==
    LET confidence == DictGet(score, "confidence", PyStr(<<"N/A">>))
        FloatLiteral == ("0" :> 0) @@ ("1" :> 10) @@ ("4" :> 40) @@ ("9" :> 90) @@ ("-2" :> -20)
                        @@ ("0.5" :> 5) @@ ("1.5" :> 15)
        w == IF confidence.t = "str" THEN Strip(confidence.v) ELSE <<>>
    IN  CASE confidence.t = "int" -> PyFloat(10 * confidence.v)
          [] confidence.t = "bool" -> PyFloat(IF confidence.v THEN 10 ELSE 0)
          [] confidence.t \in {"float", "inf", "nan"} -> confidence
          [] confidence.t = "str" ->
                IF confidence.v = <<"N/A">> THEN confidence
                ELSE IF Len(w) = 1 /\ w[1] \in DOMAIN FloatLiteral THEN PyFloat(FloatLiteral[w[1]])
                ELSE IF w = <<"inf">> THEN PyInf
                ELSE IF w = <<"nan">> THEN PyNaN
                ELSE PyStr(<<"N/A">>)
          [] OTHER -> PyStr(<<"N/A">>)

ScorerResult(engine, score) ==
    LET fit == NormalizeFitScore(score)
    IN  [engine |-> engine, status |-> "scored", fit_score |-> fit,
         next_action |-> NormalizeNextAction(score, fit),
         confidence |-> NormalizeConfidence(score),
         raw_score |-> score,
         fit_reasons |-> DictGet(score, "fit_reasons", PyList(<<>>)),
         gaps_risks |-> DictGet(score, "gaps_risks", PyList(<<>>)),
         needs_human_input |-> DictGet(score, "needs_human_input", PyList(<<>>))]

ErrorResult(engine) ==
    [engine |-> engine, status |-> "error", fit_score |-> 0, next_action |-> "",
     confidence |-> PyNone, raw_score |-> PyNone, fit_reasons |-> PyNone, gaps_risks |-> PyNone,
     needs_human_input |-> PyNone]

\* An LLM call either raises (transport error) or returns a text.
LLMRaise == [form |-> "raise", val |-> PyNone]

\* The model is called a second time exactly when the first response is "invalid"
RetryNeeded(check1) == check1 = "invalid"

\* TRUE when run_single_scorer reaches its second call of the model (line 255)
AsksAgain(scorer_engine, resp1) ==
    /\ load_scorer_prompt(scorer_engine)
    /\ resp1.form # "raise"
    /\ RetryNeeded(ScoreCheck(safe_parse_json(resp1)))

\* run_single_scorer on the engine, given what the first and (if made) second call
\* of the model answer.  out: "scored", "error" (invalid_model_output) or "raise"
\* (an exception leaves the function); calls: the calls made to the model.
run_single_scorer(scorer_engine, resp1, resp2) ==
    IF ~load_scorer_prompt(scorer_engine)
    THEN [out |-> "raise", calls |-> 0, result |-> ErrorResult(scorer_engine)]
    ELSE IF resp1.form = "raise"
    THEN [out |-> "raise", calls |-> 1, result |-> ErrorResult(scorer_engine)]
    ELSE LET score1 == safe_parse_json(resp1)
             check1 == ScoreCheck(score1)
         IN  IF check1 = "raise"
             THEN [out |-> "raise", calls |-> 1, result |-> ErrorResult(scorer_engine)]
             ELSE IF ~RetryNeeded(check1)
             THEN IF FitScoreRaises(score1)
                  THEN [out |-> "raise", calls |-> 1, result |-> ErrorResult(scorer_engine)]
                  ELSE [out |-> "scored", calls |-> 1,
                        result |-> ScorerResult(scorer_engine, score1)]
             ELSE IF resp2.form = "raise"
             THEN [out |-> "raise", calls |-> 2, result |-> ErrorResult(scorer_engine)]
             ELSE LET score2 == safe_parse_json(resp2)
                      check2 == ScoreCheck(score2)
                  IN  IF check2 = "raise"
                      THEN [out |-> "raise", calls |-> 2,
                            result |-> ErrorResult(scorer_engine)]
                      ELSE IF check2 = "invalid"
                      THEN [out |-> "error", calls |-> 2,
                            result |-> ErrorResult(scorer_engine)]
                      ELSE IF FitScoreRaises(score2)
                      THEN [out |-> "raise", calls |-> 2,
                            result |-> ErrorResult(scorer_engine)]
                      ELSE [out |-> "scored", calls |-> 2,
                            result |-> ScorerResult(scorer_engine, score2)]

\* ---------------------------------------------------------- arbitration

GateKeywords == {"clearance", "security clearance", "government", "travel",
                 "relocation", "on-site"}

\* any(kw in " ".join(items).lower() ...): the items are words; a word of the
\* vocabulary contains a gate keyword exactly when its lower-case form is one
Lower(w) ==
    CASE w = "Clearance" -> "clearance"
      [] w = "Travel" -> "travel"
      [] OTHER -> w

HasGateKeyword(items) ==
    \E i \in 1..Len(items) :
        items[i].t = "str" /\ \E j \in 1..Len(items[i].v) : Lower(items[i].v[j]) \in GateKeywords

is_hard_gate_failure(result, engine_name) ==
    LET debug == DictGet(result.raw_score, "debug", EmptyDict)
        hard_gates_passed == DictGet(debug, "hard_gates_passed", PyInt(1))
        hard_gate_fail_reasons == DictGet(debug, "hard_gate_fail_reasons", PyList(<<>>))
    IN  IF engine_name = "perfecter_v1"
        THEN ~Truthy(hard_gates_passed)
             \/ (result.fit_score = 1 /\ Truthy(hard_gate_fail_reasons))
        ELSE IF engine_name = "v1"
        THEN result.fit_score = 1
             /\ HasGateKeyword(result.gaps_risks.v \o result.needs_human_input.v)
        ELSE FALSE

\* the subsequence of s whose elements satisfy membership in T, order kept
RECURSIVE SeqFilter(_, _)
SeqFilter(s, T) ==
    IF s = <<>> THEN <<>>
    ELSE (IF Head(s) \in T THEN <<Head(s)>> ELSE <<>>) \o SeqFilter(Tail(s), T)

\* keys of a Python dict filled by iterating s: first insertion order, no repeats
RECURSIVE Dedup(_)
Dedup(s) ==
    IF s = <<>> THEN <<>>
    ELSE LET r == Dedup(SubSeq(s, 1, Len(s) - 1))
         IN  IF \E i \in 1..Len(r) : r[i] = s[Len(s)] THEN r ELSE r \o <<s[Len(s)]>>

\* a scan for the highest fit score in which a tie keeps the earlier engine
RECURSIVE MaxScan_NoTieBreak(_, _, _, _)
MaxScan_NoTieBreak(engines, results, max_score, winner) ==
    IF engines = <<>> THEN winner
    ELSE LET e == Head(engines)
         IN  IF e \in DOMAIN results /\ results[e].fit_score > max_score
             THEN MaxScan_NoTieBreak(Tail(engines), results, results[e].fit_score, e)
             ELSE MaxScan_NoTieBreak(Tail(engines), results, max_score, winner)

\* lines 149-162: the scan for the highest fit score, perfecter_v1 winning a tie
RECURSIVE MaxScan(_, _, _, _)
MaxScan(engines, results, max_score, winner) ==
    IF engines = <<>> THEN winner
    ELSE LET e == Head(engines)
         IN  IF e \notin DOMAIN results
             THEN MaxScan(Tail(engines), results, max_score, winner)
             ELSE IF results[e].fit_score > max_score
             THEN MaxScan(Tail(engines), results, results[e].fit_score, e)
             ELSE IF results[e].fit_score = max_score /\ e = "perfecter_v1"
             THEN MaxScan(Tail(engines), results, max_score, e)
             ELSE MaxScan(Tail(engines), results, max_score, winner)

\* an arbitration by fit score alone
select_ab_winner_ByScore(results, ab_test_engines) ==
    MaxScan(ab_test_engines, results, -1, "")

\* an arbitration in which the first failing engine wins, whichever it is
select_ab_winner_FirstSkip(results, ab_test_engines) ==
    LET failing == {e \in DOMAIN results : is_hard_gate_failure(results[e], e)}
        skip_engines == SeqFilter(Dedup(SeqFilter(ab_test_engines, DOMAIN results)), failing)
    IN  IF skip_engines # <<>> THEN skip_engines[1]
        ELSE MaxScan(ab_test_engines, results, -1, "")

\* an arbitration whose fit-score scan has no tie-breaker: among equal fit
\* scores the engine invoked first wins
select_ab_winner_FirstOnTie(results, ab_test_engines) ==
    LET judged == Dedup(SeqFilter(ab_test_engines, DOMAIN results))
        failing == {e \in DOMAIN results : is_hard_gate_failure(results[e], e)}
        skip_engines == SeqFilter(judged, failing)
        best(i) == \A j \in 1..Len(judged) :
                      /\ results[judged[j]].fit_score <= results[judged[i]].fit_score
                      /\ results[judged[j]].fit_score = results[judged[i]].fit_score => i <= j
    IN  IF skip_engines # <<>>
        THEN IF Len(skip_engines) = Len(judged)
             THEN IF \E i \in 1..Len(skip_engines) : skip_engines[i] = "perfecter_v1"
                  THEN "perfecter_v1" ELSE skip_engines[1]
             ELSE skip_engines[1]
        ELSE IF judged = <<>> THEN "IndexError"
        ELSE judged[CHOOSE i \in 1..Len(judged) : best(i)]

\* results: a function from engine names to results; ab_test_engines: the
\* engines in invocation order.  The caller fills results from ab_test_engines
\* (lines 700-704), so the scan finds a winner whenever results is not empty;
\* "IndexError" stands for line 162 reading the first key of an empty dict.
select_ab_winner(results, ab_test_engines) ==
    LET judged == Dedup(SeqFilter(ab_test_engines, DOMAIN results))
        failing == {e \in DOMAIN results : is_hard_gate_failure(results[e], e)}
        skip_engines == SeqFilter(judged, failing)
    IN  IF skip_engines # <<>>
        THEN IF Len(skip_engines) = Len(judged)
             THEN IF \E i \in 1..Len(skip_engines) : skip_engines[i] = "perfecter_v1"
                  THEN "perfecter_v1" ELSE skip_engines[1]
             ELSE skip_engines[1]
        ELSE LET w == MaxScan(ab_test_engines, results, -1, "")
             IN  IF w # "" THEN w ELSE "IndexError"

\* ------------------------------------------------------------ bounds

\* job records in the Jobs table at the start
MaxRecords == 2
\* executions of run_scoring in one behaviour
MaxPasses == 2
\* executions of run_pipeline in one behaviour
MaxPipelineRuns == 1
\* the largest max_jobs, the most records one run_scoring execution takes
MaxJobs == 2
\* records handed to score_job_record in one behaviour
MaxProcessed == 2

\* ------------------------------------------------- record store, writer

\* the static allowlist of run_scoring (lines 848-854)
TableFieldNames ==
    {"FitScore", "NextAction", "FitReasons", "GapsRisks", "NeedsHumanInput", "Status",
     "ScoringStatus", "SkipReason", "ProcessedAt", "Company", "Location", "RemoteStatus",
     "Requirements", "Responsibilities", "Keywords", "TechStack", "JobTitle", "JobURL",
     "JobDescriptionRaw", "JobDescriptionText", "JobJSON", "DateFound", "Source",
     "Strategy", "ScoringAB", "RunID"}

BlankJson == [form |-> "blank", val |-> PyNone]

\* A job record of the Jobs table: the columns the program reads back or the
\* claims speak of.  The other columns are written and never read.  A URL is
\* named by a number.  Blank is <<>> for a text, "" for a choice, 0 for a
\* number, PyNone for a title.
JobRecord(url, title, raw, text, json) ==
    [JobURL |-> url, Title |-> title, JobTitle |-> title, JobDescriptionRaw |-> raw,
     JobDescriptionText |-> text, JobJSON |-> json, Status |-> "New",
     ScoringStatus |-> "", SkipReason |-> "", FitScore |-> 0, NextAction |-> "",
     RunID |-> 0]

filter_fields_to_table(payload, table_field_names) ==
    [k \in DOMAIN payload \cap table_field_names |-> payload[k]]

\* AirtableClient.update_record: the store refuses a request that names a field
\* of rej (a column it does not have, or one whose value it does not accept).
\* "NextActionOption" in rej stands for a NextAction select field whose only
\* option is Review: it refuses every other value.
UpdateAccepted(payload, rej) ==
    /\ DOMAIN payload \cap rej = {}
    /\ ("NextActionOption" \in rej /\ "NextAction" \in DOMAIN payload) =>
            payload.NextAction = "Review"

ApplyUpdate(rec, payload) ==
    [f \in DOMAIN rec |-> IF f \in DOMAIN payload THEN payload[f] ELSE rec[f]]

\* The writer's view while one record is processed: the store, the number of
\* update_record calls issued, the fields submitted, the last return value, the
\* update_record calls in order (payload, accepted or not) and the fields a
\* FIELD_DROP line was printed for.
Writer(st, calls, touched) ==
    [store |-> st, calls |-> calls, touched |-> touched, ok |-> TRUE, attempts |-> <<>>,
     dropped |-> {}]

\* a writer that resubmits a refused payload even when the retry payload is
\* the same
safe_update_RetryAlways(w, id, fields_dict, rej, dry_run) ==
    LET filtered == filter_fields_to_table(fields_dict, TableFieldNames)
        retry_fields == [k \in DOMAIN filtered \ {"ScoringStatus", "SkipReason"} |-> filtered[k]]
        first == [fields |-> filtered, ok |-> UpdateAccepted(filtered, rej)]
        second == [fields |-> retry_fields, ok |-> UpdateAccepted(retry_fields, rej)]
    IN  IF DOMAIN filtered = {} THEN [w EXCEPT !.ok = FALSE]
        ELSE IF dry_run THEN [w EXCEPT !.ok = TRUE]
        ELSE IF first.ok
        THEN [w EXCEPT !.store[id] = ApplyUpdate(@, filtered), !.calls = @ + 1,
                       !.touched = @ \cup DOMAIN filtered, !.ok = TRUE,
                       !.attempts = @ \o <<first>>]
        ELSE [w EXCEPT !.store[id] = IF second.ok THEN ApplyUpdate(@, retry_fields) ELSE @,
                       !.calls = @ + 2, !.touched = @ \cup DOMAIN filtered,
                       !.ok = second.ok, !.attempts = @ \o <<first, second>>]

\* a writer that sends the update in a dry run too
safe_update_IgnoresDryRun(w, id, fields_dict, rej, dry_run) ==
    LET filtered == filter_fields_to_table(fields_dict, TableFieldNames)
        ok == UpdateAccepted(filtered, rej)
    IN  IF DOMAIN filtered = {} THEN [w EXCEPT !.ok = FALSE]
        ELSE [w EXCEPT !.store[id] = IF ok THEN ApplyUpdate(@, filtered) ELSE @,
                       !.calls = @ + 1, !.touched = @ \cup DOMAIN filtered, !.ok = ok,
                       !.attempts = @ \o <<[fields |-> filtered, ok |-> ok]>>]

\* score_job_record.safe_update (lines 458-486)
safe_update(w, id, fields_dict, rej, dry_run) ==
    LET filtered == filter_fields_to_table(fields_dict, TableFieldNames)
        retry_fields == [k \in DOMAIN filtered \ {"ScoringStatus", "SkipReason"} |-> filtered[k]]
        w0 == [w EXCEPT !.dropped = @ \cup (DOMAIN fields_dict \ TableFieldNames)]
        sent(n, ok, payload) ==
            [w0 EXCEPT !.store = IF ok THEN [w.store EXCEPT ![id] = ApplyUpdate(@, payload)]
                                 ELSE w.store,
                       !.calls = w.calls + n, !.touched = w.touched \cup DOMAIN filtered,
                       !.ok = ok,
                       !.attempts = @ \o (IF n = 2
                                           THEN <<[fields |-> filtered, ok |-> FALSE],
                                                  [fields |-> payload, ok |-> ok]>>
                                           ELSE <<[fields |-> payload, ok |-> ok]>>)]
    IN  IF DOMAIN filtered = {} THEN [w0 EXCEPT !.ok = FALSE]
        ELSE IF dry_run THEN [w0 EXCEPT !.ok = TRUE]
        ELSE IF UpdateAccepted(filtered, rej) THEN sent(1, TRUE, filtered)
        ELSE IF DOMAIN retry_fields # {} /\ DOMAIN retry_fields # DOMAIN filtered
        THEN sent(2, UpdateAccepted(retry_fields, rej), retry_fields)
        ELSE sent(1, FALSE, filtered)

\* ------------------------------------------------------ job structurer

StructRequiredKeys ==
    {"company", "job_title", "location", "remote_status", "seniority", "apply_type",
     "requirements", "responsibilities", "keywords", "tech_stack", "needs_human_input"}

\* a fallback object that does not flag the parse failure
FallbackJobJSON_NoMarker(fields) ==
    PyDict([job_title |-> fields.Title, company |-> PyNone, location |-> PyNone,
            remote_status |-> PyStr(<<"Unknown">>), seniority |-> PyStr(<<"Unknown">>),
            apply_type |-> PyStr(<<"Unknown">>), requirements |-> PyList(<<>>),
            responsibilities |-> PyList(<<>>), keywords |-> PyList(<<>>),
            tech_stack |-> PyList(<<>>), needs_human_input |-> PyList(<<>>)])

\* lines 582-594
FallbackJobJSON(fields) ==
    PyDict([job_title |-> IF Truthy(fields.JobTitle) THEN fields.JobTitle
                          ELSE IF Truthy(fields.Title) THEN fields.Title ELSE PyNone,
            company |-> PyNone, location |-> PyNone,
            remote_status |-> PyStr(<<"Unknown">>), seniority |-> PyStr(<<"Unknown">>),
            apply_type |-> PyStr(<<"Unknown">>), requirements |-> PyList(<<>>),
            responsibilities |-> PyList(<<>>), keywords |-> PyList(<<>>),
            tech_stack |-> PyList(<<>>),
            needs_human_input |-> PyList(<<PyStr(<<"JOBJSON_PARSE_FAILED">>)>>)])

\* `x or {}`
OrEmptyDict(x) == IF Truthy(x) THEN x ELSE EmptyDict

\* lines 557-564: the cached structured object, {} when there is none to use
CachedJobJSON(fields) ==
    LET p == IF fields.JobJSON.form = "blank" THEN EmptyDict
             ELSE OrEmptyDict(safe_parse_json(fields.JobJSON))
    IN  IF p.t # "dict" THEN EmptyDict ELSE p

\* a structuring step that ignores the cached object
NeedsStructuring_IgnoreCache(fields) == TRUE

\* line 566: `if not parsed`
NeedsStructuring(fields) == ~Truthy(CachedJobJSON(fields))

\* line 579: the response is kept only when it is a dict with every required key
StructResponseOK(parsed) == parsed.t = "dict" /\ StructRequiredKeys \subseteq DOMAIN parsed.v

\* lines 571-594: the structured object taken from the model's response
StructuredFrom(resp, fields) ==
    LET parsed == OrEmptyDict(safe_parse_json(resp))
    IN  IF StructResponseOK(parsed) THEN parsed ELSE FallbackJobJSON(fields)

ParsedFieldNames ==
    {"Company", "JobTitle", "Location", "RemoteStatus", "Requirements",
     "Responsibilities", "Keywords", "TechStack", "NeedsHumanInput"}

\* lines 631-649: the value of each parsed column
ParsedFieldValue(parsed, f) ==
    CASE f = "Company" -> DictGet(parsed, "company", PyNone)
      [] f = "JobTitle" -> DictGet(parsed, "job_title", PyNone)
      [] f = "Location" -> DictGet(parsed, "location", PyNone)
      [] f = "RemoteStatus" -> DictGet(parsed, "remote_status", PyNone)
      [] f = "Requirements" -> PyList(join_lines(DictGet(parsed, "requirements", PyList(<<>>))))
      [] f = "Responsibilities" -> PyList(join_lines(DictGet(parsed, "responsibilities", PyList(<<>>))))
      [] f = "Keywords" -> PyList(join_lines(DictGet(parsed, "keywords", PyList(<<>>))))
      [] f = "TechStack" -> PyList(join_lines(DictGet(parsed, "tech_stack", PyList(<<>>))))
      [] OTHER -> PyList(join_lines(DictGet(parsed, "needs_human_input", PyList(<<>>))))

\* lines 651-653: only the truthy values are sent
ParsedFieldsToUpdate(parsed) ==
    [f \in {g \in ParsedFieldNames : Truthy(ParsedFieldValue(parsed, g))} |->
        ParsedFieldValue(parsed, f)]

\* --------------------------------------------------------------- inputs

RawLong == <<"<p>", "BODY", "sp", "x">>
RawShort == <<"x", "<br>", "x">>
RawBlank == <<"sp", "nl">>
RawMarkupOnly == <<"<p>", "<br>">>

StructDoc ==
    PyDict([company |-> PyStr(<<"Acme">>), job_title |-> PyStr(<<"Engineer">>),
            location |-> PyNone, remote_status |-> PyStr(<<"Remote">>),
            seniority |-> PyStr(<<"Senior">>), apply_type |-> PyStr(<<"External">>),
            requirements |-> PyList(<<PyStr(<<"python">>)>>),
            responsibilities |-> PyList(<<>>), keywords |-> PyList(<<>>),
            tech_stack |-> PyList(<<>>), needs_human_input |-> PyList(<<>>)])

\* a response without the tech_stack key
StructDocMissingKey ==
    PyDict([k \in DOMAIN StructDoc.v \ {"tech_stack"} |-> StructDoc.v[k]])

\* what the structuring call can answer
StructReplies ==
    {LLMRaise, JsonGarbage, JsonExact(StructDocMissingKey), JsonExact(StructDoc)}

\* The records the Jobs table can hold at the start: fresh records as ingestion
\* creates them, a record whose derived fields an earlier pass cached, and
\* records a user of the table edited (the raw text changed after the text was
\* cached; a JobJSON cell holding "{}").
\* a record as ingestion creates it
FreshRecord(url) == JobRecord(url, PyStr(<<"Dev">>), RawLong, <<>>, BlankJson)

InitialRecords(url) ==
    {FreshRecord(url),
     JobRecord(url, PyNone, RawShort, <<>>, BlankJson),
     JobRecord(url, PyNone, RawBlank, <<>>, BlankJson),
     JobRecord(url, PyNone, RawMarkupOnly, <<>>, BlankJson),
     JobRecord(url, PyStr(<<"Dev">>), RawLong, clean_html_to_text(RawLong), JsonExact(StructDoc)),
     JobRecord(url, PyNone, RawLong, <<"BODY">>, BlankJson),
     JobRecord(url, PyStr(<<"Dev">>), RawLong, <<>>, JsonExact(EmptyDict))}

ScoreDoc(fit, act, passed, words) ==
    PyDict([fit_score |-> PyInt(fit), next_action |-> PyStr(<<act>>),
            fit_reasons |-> PyList(<<PyStr(<<"match">>)>>),
            gaps_risks |-> PyList(IF words = <<>> THEN <<>> ELSE <<PyStr(words)>>),
            non_obvious_matches |-> PyList(<<>>),
            keywords_to_tailor_resume |-> PyList(<<>>),
            questions_to_verify |-> PyList(<<>>), confidence |-> PyInt(1),
            needs_human_input |-> PyList(<<>>),
            debug |-> PyDict([hard_gates_passed |-> PyInt(IF passed THEN 1 ELSE 0),
                              hard_gate_fail_reasons |->
                                  PyList(IF words = <<>> THEN <<>> ELSE <<PyStr(words)>>)])])

ScoreDocMissingKey ==
    LET d == ScoreDoc(4, "Apply", TRUE, <<>>)
    IN  PyDict([k \in DOMAIN d.v \ {"debug"} |-> d.v[k]])

\* what a scoring call can answer
ScorerReplies ==
    {LLMRaise, JsonGarbage, JsonExact(PyList(<<PyInt(1)>>)), JsonExact(ScoreDocMissingKey),
     JsonExact(ScoreDoc(4, "Apply", TRUE, <<>>)),
     JsonExact(ScoreDoc(4, "Apply", FALSE, <<"Travel">>)),
     JsonEmbedded(ScoreDoc(1, "Skip", FALSE, <<"Clearance">>))}

\* how run_scoring is started: one engine, or an A/B list
EngineConfigs ==
    {[scorer_engine |-> "perfecter_v1", ab_test |-> <<>>],
     [scorer_engine |-> "v2", ab_test |-> <<>>],
     [scorer_engine |-> "perfecter_v1", ab_test |-> <<"perfecter_v1", "v1">>],
     [scorer_engine |-> "perfecter_v1", ab_test |-> <<"v2", "v1">>]}

\* the CandidateProfile table when a run reads it: no record, a record without
\* CandidateJSON, one whose CandidateJSON is not JSON, or a usable one
CandidateStates == {"missing", "nojson", "badjson", "ok"}

\* the store's refusals during one run: none, the free-text status
\* columns, the NextAction column, the FitScore column, or the NextAction
\* values other than Review
RejectSets ==
    {{}, {"ScoringStatus", "SkipReason"}, {"NextAction"}, {"FitScore"}, {"NextActionOption"}}

\* what the error payload of a refused update says (the text _raise_airtable
\* puts in the RuntimeError): the value is not an option of the select field, or
\* the table has no such column
RejectCauses == {"INVALID_MULTIPLE_CHOICE_OPTIONS", "UNKNOWN_FIELD_NAME"}

\* The command lines and stores run_scoring is started with.  A dry run sends
\* nothing, so the refusals do not matter to it; only a refusal of NextAction
\* can have either cause.
RunConfigs ==
    {c \in [dry_run : BOOLEAN, engines : EngineConfigs, max_jobs : 1..MaxJobs, rej : RejectSets,
            why : RejectCauses] :
        /\ c.rej \notin {{"NextAction"}, {"NextActionOption"}} => c.why = "UNKNOWN_FIELD_NAME"
        /\ c.rej = {"NextActionOption"} => c.why = "INVALID_MULTIPLE_CHOICE_OPTIONS"
        /\ c.dry_run => c.rej = {}
        /\ c.engines.scorer_engine \notin KnownEngines => c.rej = {}
        /\ c.engines.ab_test # <<>> =>
              /\ ~c.dry_run
              /\ c.rej \notin {{"ScoringStatus", "SkipReason"}, {"FitScore"}, {"NextActionOption"}}}

\* --------------------------------------------------------------- state

VARIABLES
    store,    \* the Jobs table: record id -> record
    pc,       \* where run_scoring stands: idle, record, struct, score, returned, raised
    run,      \* the locals of the current run_scoring execution
    cur,      \* the locals of the current score_job_record call
    clock,    \* the UTC second
    ab,       \* an arbitration: its inputs and its winner
    inv,      \* a call of run_single_scorer: its inputs and its outcome
    pipe,     \* the run_pipeline executions and the outcome of the last one
    events,   \* the Events table
    norm,     \* a normalisation of a model response: its input and its outcome
    wr,       \* a call of safe_update: its inputs and what it did
    art,      \* a call of build_scoring_ab_json: its inputs and what it returned
    txt       \* a text put through clean_html_to_text: before and after the last call

vars == <<store, pc, run, cur, clock, ab, inv, pipe, events, norm, wr, art, txt>>

EmptyResults == [e \in {} |-> ErrorResult("")]

\* one call of run_single_scorer: what the model answers, and the outcome
NoInvocation == [engine |-> "", first |-> JsonGarbage, second |-> JsonGarbage,
                 calls |-> 0, out |-> "none", result |-> ErrorResult("")]

\* the last engine invocation of the current record
NoEngineCall == [engine |-> "", calls |-> 0, out |-> "none"]

NoRecord ==
    [id |-> 0, fields |-> JobRecord(0, PyNone, <<>>, <<>>, BlankJson),
     text |-> <<>>, cleaned |-> <<>>, cleanCalls |-> 0, parsed |-> EmptyDict,
     structCalls |-> 0, structReply |-> JsonGarbage, k |-> 1, results |-> EmptyResults,
     inv |-> NoEngineCall, scoreCalls |-> 0, calls |-> 0, touched |-> {},
     attempts |-> <<>>, exc |-> "none", winner |-> "", result |-> "none"]

NoRun ==
    [n |-> 0, dry_run |-> FALSE, scorer_engine |-> "", ab_test |-> <<>>, max_jobs |-> 0,
     rej |-> {}, why |-> "UNKNOWN_FIELD_NAME", processed |-> 0, cand |-> "ok",
     valid_fields |-> {},
     run_id |-> 0, prev_id |-> 0, batch |-> <<>>, i |-> 1, total |-> 0, scored |-> 0, skipped |-> 0,
     errors |-> 0, sleeps |-> 0, llm |-> 0, updates |-> 0]

NoArbitration == [engines |-> <<>>, results |-> EmptyResults, winner |-> "", done |-> FALSE]

NoWrite ==
    [fields_dict |-> [k \in {} |-> ""], rej |-> {}, dry_run |-> FALSE, done |-> FALSE,
     ok |-> FALSE, attempts |-> <<>>, dropped |-> {}]

NoArtifact ==
    [ab_test_engines |-> <<>>, results |-> EmptyResults, winner_engine |-> "", done |-> FALSE,
     len |-> 0, form |-> "none"]

NoText ==
    [before |-> <<>>, text |-> <<>>, calls |-> 0,
     flags |-> [requires_clearance |-> FALSE, clearance_type |-> "", requires_travel |-> FALSE,
                travel_percent |-> PyNone]]

NoNormalisation ==
    [routine |-> "", score |-> EmptyDict, done |-> FALSE, exc |-> "none", fit |-> 0,
     action |-> "", confidence |-> PyNone]

NoPipeline == [n |-> 0, cand |-> "ok", size |-> 0, creates |-> 0, llm |-> 0, logged |-> 0,
               tried |-> {}, optional |-> {}, out |-> "none"]

Init ==
    /\ store \in {st \in [1..MaxRecords -> UNION {InitialRecords(u) : u \in 1..MaxRecords}] :
                      \A i \in 1..MaxRecords :
                          /\ st[i].JobURL = i
                          /\ i > 1 => st[i] = FreshRecord(i)}
    /\ pc = "idle"
    /\ run = NoRun
    /\ cur = NoRecord
    /\ clock = 1
    /\ ab = NoArbitration
    /\ inv = NoInvocation
    /\ pipe = NoPipeline
    /\ events = <<>>
    /\ norm = NoNormalisation
    /\ wr = NoWrite
    /\ art = NoArtifact
    /\ txt = NoText

\* --------------------------------------------------------- run_scoring

\* generate_run_id: the identifier is the UTC time cut to the second
generate_run_id(now) == now

\* The store returns a record without its empty cells: the field names a
\* listed record carries.
PresentFields(rec) ==
    {f \in DOMAIN rec :
        CASE f \in {"Title", "JobTitle"} -> rec[f].t # "none"
          [] f \in {"JobDescriptionRaw", "JobDescriptionText"} -> rec[f] # <<>>
          [] f = "JobJSON" -> rec[f].form # "blank"
          [] f \in {"FitScore", "RunID"} -> rec[f] # 0
          [] f = "JobURL" -> TRUE
          [] OTHER -> rec[f] # ""}

\* lines 332-340: the union of the field names of the first three records
sample_valid_fields(st) ==
    UNION {PresentFields(st[i]) : i \in 1..(IF Len(st) < 3 THEN Len(st) ELSE 3)}

\* a candidate load that, like run_pipeline's, goes on without CandidateJSON
LoadCandidate_Lenient(cand) == IF cand = "missing" THEN "raise" ELSE "ok"

\* lines 968-989: "raise" (RuntimeError), "fail" (FAIL_NO_CANDIDATE_JSON, the run
\* returns with errors = 1) or "ok"
LoadCandidate(cand) ==
    CASE cand = "missing" -> "raise"
      [] cand \in {"nojson", "badjson"} -> "fail"
      [] OTHER -> "ok"

\* the filter formula of line 865: AND(LEN({JobDescriptionRaw})>0, {FitScore}=BLANK())
MatchesFilter(rec) == rec.JobDescriptionRaw # <<>> /\ rec.FitScore = 0

\* list_records(max_records, filter_by_formula): the ids of the first max records
\* that match, in table order
RECURSIVE ListRecords(_, _, _)
ListRecords(st, from, max) ==
    IF from > Len(st) \/ max = 0 THEN <<>>
    ELSE IF MatchesFilter(st[from]) THEN <<from>> \o ListRecords(st, from + 1, max - 1)
    ELSE ListRecords(st, from + 1, max)

\* lines 826-1024: the run starts, loads the candidate and queries the batch.
\* An engine whose prompt does not load is only warned about (lines 833-840).
\* The first execution draws the command line, the candidate table and the
\* store's refusals; the later executions of the behaviour repeat them.
RunStart ==
    /\ pc \in {"idle", "returned", "raised"}
    /\ run.n < MaxPasses
    /\ pipe.n = 0
    /\ \E c \in (IF run.n = 0 THEN RunConfigs
                 ELSE {[dry_run |-> run.dry_run,
                        engines |-> [scorer_engine |-> run.scorer_engine, ab_test |-> run.ab_test],
                        max_jobs |-> run.max_jobs, rej |-> run.rej, why |-> run.why]}),
          cand \in (IF run.n = 0 THEN CandidateStates ELSE {run.cand}),
          tick \in (IF run.n = 0 THEN {0} ELSE {0, 1}) :
        LET dry == c.dry_run
            ec == c.engines
            max_jobs == c.max_jobs
            rej == c.rej
            loaded == LoadCandidate(cand)
            batch == IF loaded = "ok" THEN ListRecords(store, 1, max_jobs) ELSE <<>>
        IN  /\ run.processed + Len(batch) <= MaxProcessed
            /\ run' = [NoRun EXCEPT !.n = run.n + 1, !.dry_run = dry,
                                    !.max_jobs = max_jobs,
                                    !.processed = run.processed + Len(batch),
                                    !.scorer_engine = ec.scorer_engine,
                                    !.ab_test = ec.ab_test,
                                    !.rej = rej, !.why = c.why, !.cand = cand,
                                    !.valid_fields = sample_valid_fields(store),
                                    !.run_id = generate_run_id(clock + tick),
                                    !.prev_id = run.run_id,
                                    !.batch = batch, !.total = Len(batch),
                                    !.errors = IF loaded = "fail" THEN 1 ELSE 0]
            /\ clock' = clock + tick
            /\ pc' = IF loaded = "raise" THEN "raised"
                     ELSE IF batch = <<>> THEN "returned" ELSE "record"
    /\ cur' = NoRecord
    /\ UNCHANGED <<store, ab, inv, pipe, events, norm, wr, art, txt>>

\* a loop that also waits after the last record
Finish_SleepAfterEach(c, w, result, llmCalls) ==
    /\ store' = w.store
    /\ cur' = [c EXCEPT !.result = result, !.calls = w.calls, !.touched = w.touched,
                        !.attempts = w.attempts]
    /\ run' = [run EXCEPT !.scored = @ + (IF result = "scored" THEN 1 ELSE 0),
                          !.skipped = @ + (IF result = "skipped" THEN 1 ELSE 0),
                          !.errors = @ + (IF result \notin {"scored", "skipped"} THEN 1 ELSE 0),
                          !.sleeps = @ + 1,
                          !.i = @ + 1,
                          !.llm = @ + llmCalls,
                          !.updates = @ + (w.calls - c.calls)]
    /\ pc' = IF run.i < run.total THEN "record" ELSE "returned"
    /\ UNCHANGED <<clock, ab, inv, pipe, events, norm, wr, art, txt>>

\* a loop that tests "skipped" with a second if, so that a skipped record also
\* falls into the final else
Finish_SkippedAlsoError(c, w, result, llmCalls) ==
    /\ store' = w.store
    /\ cur' = [c EXCEPT !.result = result, !.calls = w.calls, !.touched = w.touched,
                        !.attempts = w.attempts]
    /\ run' = [run EXCEPT !.scored = @ + (IF result = "scored" THEN 1 ELSE 0),
                          !.skipped = @ + (IF result = "skipped" THEN 1 ELSE 0),
                          !.errors = @ + (IF result # "scored" THEN 1 ELSE 0),
                          !.sleeps = @ + (IF run.i < run.total THEN 1 ELSE 0),
                          !.i = @ + 1,
                          !.llm = @ + llmCalls,
                          !.updates = @ + (w.calls - c.calls)]
    /\ pc' = IF run.i < run.total THEN "record" ELSE "returned"
    /\ UNCHANGED <<clock, ab, inv, pipe, events, norm, wr, art, txt>>

\* lines 1033-1045 after score_job_record returned result for the record c, the
\* writer w holding what the call wrote: the counters, the delay, the next record
Finish(c, w, result, llmCalls) ==
    /\ store' = w.store
    /\ cur' = [c EXCEPT !.result = result, !.calls = w.calls, !.touched = w.touched,
                        !.attempts = w.attempts]
    /\ run' = [run EXCEPT !.scored = @ + (IF result = "scored" THEN 1 ELSE 0),
                          !.skipped = @ + (IF result = "skipped" THEN 1 ELSE 0),
                          !.errors = @ + (IF result \notin {"scored", "skipped"} THEN 1 ELSE 0),
                          !.sleeps = @ + (IF run.i < run.total THEN 1 ELSE 0),
                          !.i = @ + 1,
                          !.llm = @ + llmCalls,
                          !.updates = @ + (w.calls - c.calls)]
    /\ pc' = IF run.i < run.total THEN "record" ELSE "returned"
    /\ UNCHANGED <<clock, ab, inv, pipe, events, norm, wr, art, txt>>

\* score_job_record goes on to the next step of the same record
Continue(c, w, next, llmCalls) ==
    /\ store' = w.store
    /\ cur' = [c EXCEPT !.calls = w.calls, !.touched = w.touched]
    /\ run' = [run EXCEPT !.llm = @ + llmCalls, !.updates = @ + (w.calls - c.calls)]
    /\ pc' = next
    /\ UNCHANGED <<clock, ab, inv, pipe, events, norm, wr, art, txt>>

\* score_job_record, lines 452-553: the description check and the cleaned text
BeginRecord ==
    /\ pc = "record"
    /\  LET id == run.batch[run.i]
            rej == run.rej
            fields == store[id]
            dry == run.dry_run
            c0 == [NoRecord EXCEPT !.id = id, !.fields = fields]
            w0 == Writer(store, 0, {})
            job_description_raw == Strip(fields.JobDescriptionRaw)
            cached == Strip(fields.JobDescriptionText)
            text == IF cached = <<>> THEN clean_html_to_text(job_description_raw) ELSE cached
            w1 == IF cached = <<>> /\ StrLen(text) < CLEAN_MIN_LEN /\ ~dry
                  THEN safe_update(w0, id, [NeedsHumanInput |-> "SHORT_JD_SCORING"], rej, dry)
                  ELSE w0
            w2 == IF cached = <<>> /\ ~dry
                  THEN safe_update(w1, id, [JobDescriptionText |-> text], rej, dry)
                  ELSE w1
        IN  IF job_description_raw = <<>>
            THEN Finish(c0,
                        IF dry THEN w0
                        ELSE safe_update(w0, id, [Status |-> "Needs JD",
                                                  ScoringStatus |-> "SKIPPED",
                                                  SkipReason |-> "no_jd"], rej, dry),
                        "skipped", 0)
            ELSE Continue([c0 EXCEPT !.text = text,
                                     !.cleaned = clean_html_to_text(job_description_raw),
                                     !.cleanCalls = IF cached = <<>> THEN 2 ELSE 1],
                          w2, "struct", 0)

\* score_job_record, lines 555-695: the structured object (cached, from the model,
\* or the fallback), its write, the parsed columns.  The model call of line 570
\* stands outside the try block of line 630: when it raises, the exception
\* leaves score_job_record and run_scoring.
EnsureJobJSON ==
    /\ pc = "struct"
    /\ \E reply \in StructReplies :
        LET id == cur.id
            dry == run.dry_run
            w0 == Writer(store, cur.calls, cur.touched)
            build == NeedsStructuring(cur.fields)
            fromModel == OrEmptyDict(safe_parse_json(reply))
            parsed == IF build THEN StructuredFrom(reply, cur.fields)
                      ELSE CachedJobJSON(cur.fields)
            w1 == IF build /\ ~StructResponseOK(fromModel) /\ ~dry
                  THEN safe_update(w0, id, [NeedsHumanInput |-> "JOBJSON_PARSE_FAILED"], run.rej, dry)
                  ELSE w0
            w2 == IF build /\ ~dry
                  THEN safe_update(w1, id, [JobJSON |-> JsonExact(parsed)], run.rej, dry)
                  ELSE w1
            toUpdate == ParsedFieldsToUpdate(parsed)
            w3 == IF DOMAIN toUpdate # {} THEN safe_update(w2, id, toUpdate, run.rej, dry)
                  ELSE w2
        IN  IF build /\ reply.form = "raise"
            THEN /\ pc' = "raised"
                 /\ cur' = [cur EXCEPT !.structCalls = @ + 1, !.structReply = reply,
                                       !.exc = "struct"]
                 /\ run' = [run EXCEPT !.llm = @ + 1]
                 /\ UNCHANGED <<store, clock, ab, inv, pipe, events, norm, wr, art, txt>>
            ELSE Continue([cur EXCEPT !.structCalls = @ + (IF build THEN 1 ELSE 0),
                                      !.structReply = IF build THEN reply ELSE @,
                                      !.parsed = parsed],
                          w3, "score", IF build THEN 1 ELSE 0)

\* a persist step that writes the scores to the first record of the table
PersistScore_FirstRecord(w0, id, parsed, winner_engine, winner_result, ab_test, run_id, rej, dry) ==
    IF dry THEN w0
    ELSE safe_update(w0, 1, [FitScore |-> winner_result.fit_score, Status |-> "Scored",
                             ScoringStatus |-> "SCORED", RunID |-> run_id], rej, dry)

\* a persist step that gives up at the first field group the store refuses
PersistScore_StopAtFailure(w0, id, parsed, winner_engine, winner_result, ab_test, run_id, rej, dry) ==
    LET w1 == safe_update(w0, id, [FitScore |-> winner_result.fit_score, Status |-> "Scored",
                                   ScoringStatus |-> "SCORED", RunID |-> run_id], rej, dry)
        w2 == safe_update(w1, id, [NextAction |-> winner_result.next_action], rej, dry)
        w4 == safe_update(w2, id, [FitReasons |-> join_lines(winner_result.fit_reasons)], rej, dry)
        w5 == IF ab_test # <<>>
              THEN safe_update(w4, id, [ScoringAB |-> winner_engine], rej, dry) ELSE w4
    IN  IF dry THEN w0
        ELSE IF ~w1.ok THEN w1
        ELSE IF ~w2.ok THEN w2
        ELSE w5

\* lines 734-802: the writes of a scored record, winner_result the result kept
PersistScore(w0, id, parsed, winner_engine, winner_result, ab_test, run_id, rej, dry) ==
    LET needs_human_input_text == join_lines(DictGet(parsed, "needs_human_input", PyList(<<>>)))
        merged_needs == merge_notes(needs_human_input_text,
                                    join_lines(winner_result.needs_human_input))
        optional == [FitReasons |-> join_lines(winner_result.fit_reasons),
                     GapsRisks |-> join_lines(winner_result.gaps_risks),
                     NeedsHumanInput |-> merged_needs]
        optional_fields_c == [f \in {g \in DOMAIN optional : optional[g] # <<>>} |-> optional[f]]
        w1 == safe_update(w0, id, [FitScore |-> winner_result.fit_score, Status |-> "Scored",
                                   ScoringStatus |-> "SCORED", RunID |-> run_id], rej, dry)
        w2 == safe_update(w1, id, [NextAction |-> winner_result.next_action], rej, dry)
        w3 == IF w2.ok THEN w2 ELSE safe_update(w2, id, [NextAction |-> "Review"], rej, dry)
        w4 == IF DOMAIN optional_fields_c # {}
              THEN safe_update(w3, id, optional_fields_c, rej, dry) ELSE w3
        w5 == IF ab_test # <<>>
              THEN safe_update(w4, id, [ScoringAB |-> winner_engine], rej, dry) ELSE w4
    IN  IF dry THEN w0 ELSE w5

\* lines 701 and 722: the engine the next call of run_single_scorer is for
CurrentEngine == IF run.ab_test # <<>> THEN run.ab_test[cur.k] ELSE run.scorer_engine

\* score_job_record, lines 697-819: one pass of the engine loop (the only pass in
\* single-engine mode) and, after the last engine, the winner and the writes.
\* An exception raised by run_single_scorer is caught at line 804 and marks the
\* record FAILED; the two returns of invalid_model_output write nothing.
ScoreEngine ==
    /\ pc = "score"
    /\ \E resp1 \in ScorerReplies :
       \E resp2 \in (IF AsksAgain(CurrentEngine, resp1) THEN ScorerReplies ELSE {resp1}) :
        LET id == cur.id
            dry == run.dry_run
            abmode == run.ab_test # <<>>
            engine == CurrentEngine
            rs == run_single_scorer(engine, resp1, resp2)
            last == ~abmode \/ cur.k = Len(run.ab_test)
            results == IF abmode /\ rs.out = "scored"
                       THEN [e \in DOMAIN cur.results \cup {engine} |->
                                IF e = engine THEN rs.result ELSE cur.results[e]]
                       ELSE IF ~abmode /\ rs.out = "scored"
                       THEN [e \in {engine} |-> rs.result]
                       ELSE cur.results
            c1 == [cur EXCEPT !.inv = [engine |-> engine, calls |-> rs.calls, out |-> rs.out],
                              !.scoreCalls = @ + rs.calls,
                              !.results = results,
                              !.k = @ + 1]
            w0 == Writer(store, cur.calls, cur.touched)
            winner_engine == IF abmode THEN select_ab_winner(results, run.ab_test) ELSE engine
        IN  IF rs.out = "raise"
            THEN Finish([c1 EXCEPT !.exc = "score"],
                        IF dry THEN w0
                        ELSE safe_update(w0, id, [ScoringStatus |-> "FAILED",
                                                  SkipReason |-> "Scoring error"], run.rej, dry),
                        "error", rs.calls)
            ELSE IF ~last THEN Continue(c1, w0, "score", rs.calls)
            ELSE IF DOMAIN results = {} THEN Finish(c1, w0, "error", rs.calls)
            ELSE Finish([c1 EXCEPT !.winner = winner_engine],
                        PersistScore(w0, id, cur.parsed, winner_engine, results[winner_engine],
                                     run.ab_test, run.run_id, run.rej, dry),
                        "scored", rs.calls)

\* --------------------------------------------------------- run_pipeline

\* what the two model calls of run_pipeline can answer
PipelineParseReplies == {LLMRaise, JsonExact(PyList(<<PyInt(1)>>)), JsonExact(StructDoc)}
PipelineScoreReplies == {LLMRaise, JsonGarbage, JsonExact(ScoreDoc(4, "Apply", TRUE, <<>>))}

\* the store's refusals while run_pipeline runs
PipelineRejectSets == {{}, {"FitScore"}, {"NextAction"}}

\* lines 89-114: "raise" when the candidate record is missing; otherwise the run
\* goes on, with CandidateJSON when it parses ("json") and with the raw
\* candidate fields when it is absent or invalid ("fields")
PipelineCandidate(cand) ==
    CASE cand = "missing" -> "raise"
      [] cand = "ok" -> "json"
      [] OTHER -> "fields"

\* lines 158-172
PipelineParsedUpdate(parsed) ==
    [JobTitle |-> LET t == DictGet(parsed, "job_title", PyNone)
                  IN  IF Truthy(t) THEN t ELSE PyStr(<<>>),
     Status |-> "Parsed", NextAction |-> "Review"]

\* update_record of AirtableClient, called directly: st after the request, or st
\* unchanged when the store refuses it
DirectUpdate(st, id, payload, rej) ==
    IF UpdateAccepted(payload, rej) THEN [st EXCEPT ![id] = ApplyUpdate(@, payload)] ELSE st

\* lines 225-229 and 273-280: the optional fields of step C, the non-empty ones
PipelineOptional(parsed, score) ==
    LET optional == [FitReasons |-> join_lines(DictGet(score, "fit_reasons", PyList(<<>>))),
                     GapsRisks |-> join_lines(DictGet(score, "gaps_risks", PyList(<<>>))),
                     NeedsHumanInput |->
                         merge_notes(join_lines(DictGet(parsed, "needs_human_input", PyList(<<>>))),
                                     join_lines(DictGet(score, "needs_human_input", PyList(<<>>))))]
    IN  [f \in {g \in DOMAIN optional : optional[g] # <<>>} |-> optional[f]]

\* one guarded update of steps A1..C (try / except Exception around update_record):
\* the request is issued and its fields noted; a refusal leaves the store as it was
TryUpdate(p, id, payload, rej) ==
    [store |-> DirectUpdate(p.store, id, payload, rej), tried |-> p.tried \cup DOMAIN payload]

\* lines 234-288: steps A1, A2, B and (when an optional field is non-empty) C.
\* The fallback of step B resubmits NextAction and is refused like the first try.
PipelineWrites(st, id, parsed, score, fit_score_int, next_action_target, rej) ==
    LET a1 == TryUpdate([store |-> st, tried |-> {}], id,
                        [FitScore |-> fit_score_int, Status |-> "Scored"], rej)
        a2 == TryUpdate(a1, id, [Strategy |-> "strategy_norm"], rej)
        b  == TryUpdate(a2, id, [NextAction |-> next_action_target], rej)
        optional_fields_c == PipelineOptional(parsed, score)
    IN  IF DOMAIN optional_fields_c # {} THEN TryUpdate(b, id, optional_fields_c, rej) ELSE b

\* run_pipeline as a whole (lines 87-302).  out is "returned", or the step whose
\* exception ended the execution.
RunPipeline ==
    /\ pipe.n < MaxPipelineRuns
    /\ pc = "idle"
    /\ \E cand \in CandidateStates, job_url \in 1..(MaxRecords + 1),
          job_description_raw \in {RawLong, RawMarkupOnly},
          parsed_text \in PipelineParseReplies, score_text \in PipelineScoreReplies,
          rej \in PipelineRejectSets :
        LET job_record_id == Len(store) + 1
            created == [JobRecord(job_url, PyNone, job_description_raw, <<>>, BlankJson)
                            EXCEPT !.NextAction = "Review"]
            st1 == Append(store, created)
            ev1 == Append(events, [job |-> job_record_id, type |-> "INGESTED"])
            parsed == IF parsed_text.form = "raise" THEN EmptyDict
                      ELSE OrEmptyDict(safe_parse_json(parsed_text))
            update_fields == PipelineParsedUpdate(parsed)
            st2 == DirectUpdate(st1, job_record_id, update_fields, rej)
            ev2 == Append(ev1, [job |-> job_record_id, type |-> "PARSED"])
            score == IF score_text.form = "raise" THEN EmptyDict
                     ELSE OrEmptyDict(safe_parse_json(score_text))
            fit_score_int == NormalizeFitScore(score)
            next_action_target == FitToAction(fit_score_int)
            written == PipelineWrites(st2, job_record_id, parsed, score, fit_score_int,
                                      next_action_target, rej)
            st4 == written.store
            ev3 == Append(ev2, [job |-> job_record_id, type |-> "SCORED"])
            out == IF PipelineCandidate(cand) = "raise" THEN "candidate"
                   ELSE IF parsed_text.form = "raise" \/ parsed.t # "dict" THEN "parse"
                   ELSE IF ~UpdateAccepted(update_fields, rej) THEN "update"
                   ELSE IF score_text.form = "raise" \/ score.t # "dict" \/ FitScoreRaises(score)
                   THEN "score"
                   ELSE "returned"
        IN  /\ store' = CASE out = "candidate" -> store
                          [] out \in {"parse", "update"} -> st1
                          [] out = "score" -> st2
                          [] OTHER -> st4
            /\ events' = CASE out = "candidate" -> events
                           [] out \in {"parse", "update"} -> ev1
                           [] out = "score" -> ev2
                           [] OTHER -> ev3
            /\ pipe' = [n |-> pipe.n + 1, cand |-> cand, size |-> Len(store),
                        creates |-> IF out = "candidate" THEN 0 ELSE 1,
                        logged |-> Len(events') - Len(events),
                        llm |-> CASE out = "candidate" -> 0
                                  [] out \in {"parse", "update"} -> 1
                                  [] OTHER -> 2,
                        tried |-> IF out = "returned" THEN written.tried ELSE {},
                        optional |-> IF out = "returned"
                                     THEN DOMAIN PipelineOptional(parsed, score) ELSE {},
                        out |-> out]
    /\ UNCHANGED <<pc, run, cur, clock, ab, inv, norm, wr, art, txt>>

\* ------------------------------------------------------- specification

Next ==
    \/ RunStart
    \/ BeginRecord
    \/ EnsureJobJSON
    \/ ScoreEngine
    \/ RunPipeline

Spec == Init /\ [][Next]_vars

\* ------------------------------------- run_single_scorer on its own

ScorerEngines == {"perfecter_v1", "v1", "v2"}

\* no entry point runs: the store as ingestion left it
Quiet ==
    /\ store = [i \in 1..MaxRecords |-> FreshRecord(i)]
    /\ pc = "idle"
    /\ run = NoRun
    /\ cur = NoRecord
    /\ clock = 1
    /\ pipe = NoPipeline
    /\ events = <<>>

\* One call of run_single_scorer: the engine and what the model answers to the
\* first call and to the second one, should it be made.
InitScorer ==
    /\ Quiet
    /\ ab = NoArbitration
    /\ norm = NoNormalisation
    /\ wr = NoWrite
    /\ art = NoArtifact
    /\ txt = NoText
    /\ inv \in {[NoInvocation EXCEPT !.engine = e, !.first = r1, !.second = r2] :
                    e \in ScorerEngines, r1 \in ScorerReplies, r2 \in ScorerReplies}

Invoke ==
    /\ inv.out = "none"
    /\ LET rs == run_single_scorer(inv.engine, inv.first, inv.second)
       IN  inv' = [inv EXCEPT !.calls = rs.calls, !.out = rs.out, !.result = rs.result]
    /\ UNCHANGED <<store, pc, run, cur, clock, ab, pipe, events, norm, wr, art, txt>>

NextScorer == Invoke

SpecScorer == InitScorer /\ [][NextScorer]_vars

\* --------------------------------------- select_ab_winner on its own

ABEngines == {"perfecter_v1", "v1", "other"}

\* the engine lists: one to three engines, none twice
ABLists ==
    {l \in UNION {[1..n -> ABEngines] : n \in 1..3} :
        \A i, j \in 1..Len(l) : i # j => l[i] # l[j]}

\* the responses an engine's result is made from: a plain fit of 4, of 3 and of
\* 1, a fit of 1 with a failed gate and a clearance risk, a fit of 4 with a
\* failed gate
ABScores ==
    {ScoreDoc(4, "Apply", TRUE, <<>>), ScoreDoc(3, "Network First", TRUE, <<>>),
     ScoreDoc(1, "Skip", TRUE, <<>>), ScoreDoc(1, "Skip", FALSE, <<"Clearance">>),
     ScoreDoc(4, "Apply", FALSE, <<"Travel">>)}

\* the results of the engines of l that succeeded: at least one, as at line 706
ABResults(l) ==
    UNION {[S -> ABScores] : S \in (SUBSET {l[i] : i \in 1..Len(l)}) \ {{}}}

InitAB ==
    /\ Quiet
    /\ inv = NoInvocation
    /\ norm = NoNormalisation
    /\ wr = NoWrite
    /\ art = NoArtifact
    /\ txt = NoText
    /\ \E l \in ABLists : \E docs \in ABResults(l) :
        ab = [engines |-> l,
              results |-> [e \in DOMAIN docs |-> ScorerResult(e, docs[e])],
              winner |-> "", done |-> FALSE]

Arbitrate ==
    /\ ~ab.done
    /\ ab' = [ab EXCEPT !.winner = select_ab_winner(ab.results, ab.engines), !.done = TRUE]
    /\ UNCHANGED <<store, pc, run, cur, clock, inv, pipe, events, norm, wr, art, txt>>

NextAB == Arbitrate

SpecAB == InitAB /\ [][NextAB]_vars

\* ------------------------- the normalisation of a response on its own

\* score_existing_jobs.score_job_description, lines 168-178: the fit score is
\* read from FitScore alone; a NextAction that is not a canonical literal
\* becomes Skip; .strip() on a NextAction that is not a str raises
score_job_description(score_data) ==
    LET f == ClampedInt(DictGet(score_data, "FitScore", PyNone))
        na == DictGet(score_data, "NextAction", PyStr(<<>>))
        stripped == IF na.t = "str" THEN Strip(na.v) ELSE <<>>
    IN  IF f.exc # "none" THEN [exc |-> f.exc, fit |-> 0, action |-> ""]
        ELSE IF na.t # "str" THEN [exc |-> "AttributeError", fit |-> f.v, action |-> ""]
        ELSE [exc |-> "none", fit |-> f.v,
              action |-> IF Len(stripped) = 1 /\ stripped[1] \in ValidActions
                         THEN stripped[1] ELSE "Skip"]

\* the three routines that turn a parsed response into a fit score and a next
\* action: run_single_scorer (lines 261-285), run_pipeline (pipeline.py lines
\* 200-223, the model's next action is not read), score_job_description
NormalizeResponse(routine, score) ==
    IF routine = "score_job_description" THEN score_job_description(score)
    ELSE IF FitScoreRaises(score)
    THEN [exc |-> ClampedInt(FitScoreRaw(score)).exc, fit |-> 0, action |-> ""]
    ELSE LET fit == NormalizeFitScore(score)
         IN  [exc |-> "none", fit |-> fit,
              action |-> IF routine = "run_single_scorer"
                         THEN NormalizeNextAction(score, fit) ELSE FitToAction(fit)]

ScoringRoutines == {"run_single_scorer", "run_pipeline", "score_job_description"}

\* the key a response carries its fit score and its next action under
FitKeys == {"fit_score", "score", "FitScore", "fitScore", "absent"}
ActionKeys == {"next_action", "NextAction", "absent"}

\* the values json.loads can give the fit score of a response
FitValues ==
    {PyNone, PyInt(-1), PyInt(0), PyInt(1), PyInt(2), PyInt(3), PyInt(4), PyInt(5), PyInt(7),
     PyStr(<<"4">>), PyStr(<<"sp", "9">>), PyStr(<<"-2">>), PyStr(<<"high">>), PyStr(<<>>),
     PyFloat(47), PyFloat(5), PyFloat(-5), PyFloat(999), PyInf, PyNaN,
     PyBool(TRUE), PyBool(FALSE), PyList(<<PyInt(4)>>), EmptyDict}

\* the values json.loads can give its next action
ActionValues ==
    {PyNone, PyStr(<<"Apply Now">>), PyStr(<<"Apply">>), PyStr(<<"Network First">>),
     PyStr(<<"Skip">>), PyStr(<<"sp", "Skip", "nl">>), PyStr(<<"Maybe">>), PyStr(<<>>),
     PyInt(5), PyList(<<PyStr(<<"Apply">>)>>)}

\* the values json.loads can give the confidence of a response
ConfidenceValues ==
    {PyInt(1), PyInt(0), PyInt(85), PyFloat(8), PyFloat(15), PyFloat(-5), PyInf, PyNaN,
     PyStr(<<"0.5">>), PyStr(<<"1.5">>), PyStr(<<"high">>), PyStr(<<"N/A">>), PyStr(<<>>),
     PyNone, PyBool(TRUE), PyList(<<PyFloat(8)>>)}

\* a parsed response with the fit score fv under the key fk, the next action
\* av under the key ak and the confidence cv
ResponseDoc(fk, fv, ak, av, cv) ==
    PyDict([k \in ({fk} \cup {ak} \cup {"confidence"}) \ {"absent"} |->
                IF k = fk THEN fv ELSE IF k = ak THEN av ELSE cv])

InitNorm ==
    /\ Quiet
    /\ ab = NoArbitration
    /\ inv = NoInvocation
    /\ wr = NoWrite
    /\ art = NoArtifact
    /\ txt = NoText
    /\ \E r \in ScoringRoutines, fk \in FitKeys, fv \in FitValues,
          ak \in ActionKeys, av \in ActionValues :
       \E cv \in (IF r = "run_single_scorer" /\ fk = "fit_score" /\ fv = PyInt(4)
                     /\ ak = "next_action"
                  THEN ConfidenceValues ELSE {PyInt(1)}) :
        norm = [NoNormalisation EXCEPT !.routine = r,
                                       !.score = ResponseDoc(fk, fv, ak, av, cv)]

Normalize ==
    /\ ~norm.done
    /\ LET r == NormalizeResponse(norm.routine, norm.score)
       IN  norm' = [norm EXCEPT !.done = TRUE, !.exc = r.exc, !.fit = r.fit,
                                !.action = r.action,
                                !.confidence =
                                    IF norm.routine = "run_single_scorer" /\ r.exc = "none"
                                    THEN NormalizeConfidence(norm.score) ELSE PyNone]
    /\ UNCHANGED <<store, pc, run, cur, clock, ab, inv, pipe, events, wr, art, txt>>

NextNorm == Normalize

SpecNorm == InitNorm /\ [][NextNorm]_vars

\* ----------------------------------------------- safe_update on its own

\* the payloads score_job_record hands to safe_update (lines 493-503, 520-532,
\* 741-748, 753, 807-816), and one naming a column outside the allowlist
WriterPayloads ==
    {[Status |-> "Needs JD", ScoringStatus |-> "SKIPPED", SkipReason |-> "no_jd"],
     [FitScore |-> 4, Status |-> "Scored", ScoringStatus |-> "SCORED", RunID |-> 1],
     [ScoringStatus |-> "FAILED", SkipReason |-> "Scoring error"],
     [ScoringStatus |-> "FAILED"],
     [NextAction |-> "Apply"],
     [NextAction |-> "Review"],
     [JobDescriptionText |-> <<"BODY">>],
     [Status |-> "Scored", Title |-> PyStr(<<"Dev">>)],
     [Title |-> PyStr(<<"Dev">>)]}

\* the columns the table can lack or refuse a value for
WriterRefusals == SUBSET {"ScoringStatus", "SkipReason", "NextAction", "Status"}

InitWriter ==
    /\ Quiet
    /\ ab = NoArbitration
    /\ inv = NoInvocation
    /\ norm = NoNormalisation
    /\ \E p \in WriterPayloads, rej \in WriterRefusals, dry \in BOOLEAN :
        wr = [NoWrite EXCEPT !.fields_dict = p, !.rej = rej, !.dry_run = dry]
    /\ art = NoArtifact
    /\ txt = NoText

\* one call of safe_update for record 1
SafeUpdate ==
    /\ ~wr.done
    /\ LET w == safe_update(Writer(store, 0, {}), 1, wr.fields_dict, wr.rej, wr.dry_run)
       IN  /\ store' = w.store
           /\ wr' = [wr EXCEPT !.done = TRUE, !.ok = w.ok, !.attempts = w.attempts,
                               !.dropped = w.dropped]
    /\ UNCHANGED <<pc, run, cur, clock, ab, inv, pipe, events, norm, art, txt>>

NextWriter == SafeUpdate

SpecWriter == InitWriter /\ [][NextWriter]_vars

\* ------------------------------------- build_scoring_ab_json on its own

\* line 207
max_len == 90000

\* The serialized size of one engine's raw_score: its "debug" member (0 when
\* the model sent none) and everything else.  A scorer answer is normally a few
\* thousand characters; the function itself takes results of any size.
RawScoreSizes == {[body |-> b, debug |-> d] : b \in {2000, 50000, 95000}, d \in {0, 1500, 45000}}

\* build_scoring_ab_json (lines 165-233) by the length of what it returns.
\* json.dumps of the output is the envelope (winner, winner_fit_score,
\* winner_next_action, hashes, runtime: some 300 characters) plus the raw_score
\* of every engine that has a result; the truncated forms add the two
\* TRUNCATED members (some 70 characters).
build_scoring_ab_json(results, ab_test_engines, winner_engine) ==
    LET envelope == 300
        note == 70
        present == {i \in 1..Len(ab_test_engines) : ab_test_engines[i] \in DOMAIN results}
        size(i, stripped) ==
            LET r == results[ab_test_engines[i]]
            IN  r.body + (IF stripped /\ ab_test_engines[i] # winner_engine THEN 0 ELSE r.debug)
        total[S \in SUBSET present] ==
            IF S = {} THEN 0
            ELSE LET i == CHOOSE x \in S : TRUE IN size(i, FALSE) + total[S \ {i}]
        totalStripped[S \in SUBSET present] ==
            IF S = {} THEN 0
            ELSE LET i == CHOOSE x \in S : TRUE IN size(i, TRUE) + totalStripped[S \ {i}]
        json_string == envelope + total[present]
        json_stripped == envelope + note + totalStripped[present]
        json_minimal == envelope + note + results[winner_engine].body
                        + results[winner_engine].debug
    IN  IF json_string <= max_len THEN [len |-> json_string, form |-> "full"]
        ELSE IF json_stripped <= max_len THEN [len |-> json_stripped, form |-> "stripped"]
        ELSE [len |-> json_minimal, form |-> "minimal"]

InitArtifact ==
    /\ Quiet
    /\ ab = NoArbitration
    /\ inv = NoInvocation
    /\ norm = NoNormalisation
    /\ wr = NoWrite
    /\ txt = NoText
    /\ \E engines \in {e.ab_test : e \in {c \in EngineConfigs : c.ab_test # <<>>}} :
       \E D \in SUBSET {engines[i] : i \in 1..Len(engines)} \ {{}} :
       \E results \in [D -> RawScoreSizes], winner \in D :
        art = [NoArtifact EXCEPT !.ab_test_engines = engines, !.results = results,
                                 !.winner_engine = winner]

\* lines 775-779: the artifact of one A/B record is built
BuildArtifact ==
    /\ ~art.done
    /\ LET out == build_scoring_ab_json(art.results, art.ab_test_engines, art.winner_engine)
       IN  art' = [art EXCEPT !.done = TRUE, !.len = out.len, !.form = out.form]
    /\ UNCHANGED <<store, pc, run, cur, clock, ab, inv, pipe, events, norm, wr, txt>>

SpecArtifact == InitArtifact /\ [][BuildArtifact]_vars

\* --------------------------------------- clean_html_to_text on its own

MaxTextLen == 3

\* the raw descriptions: up to MaxTextLen tokens of words, white space, tags,
\* bare angle brackets and escaped entities
RawTexts ==
    UNION {[1..n -> {"x", "sp", "nl", "cr", "<p>", "<", ">", "&lt;", "&gt;", "&amp;"}] :
              n \in 0..MaxTextLen}

InitText ==
    /\ Quiet
    /\ ab = NoArbitration
    /\ inv = NoInvocation
    /\ norm = NoNormalisation
    /\ wr = NoWrite
    /\ art = NoArtifact
    /\ \E raw \in RawTexts : txt = [NoText EXCEPT !.text = raw]

\* the text is put through clean_html_to_text, once and then once more
CleanText ==
    /\ txt.calls < 2
    /\ txt' = [txt EXCEPT !.before = txt.text, !.text = clean_html_to_text(txt.text),
                          !.calls = txt.calls + 1]
    /\ UNCHANGED <<store, pc, run, cur, clock, ab, inv, pipe, events, norm, wr, art>>

SpecText == InitText /\ [][CleanText]_vars

\* -------------------------------------- build_flags_from_jd on its own

MaxPhrases == 3

\* The sentences of a cleaned description, each one token; a description is a
\* sequence of them joined by ". ", which no pattern of build_flags_from_jd
\* spans.  "data scientists / Science degree" is two lines of a bullet list:
\* "...scientists" at the end of one, "Science..." at the start of the next.
Phrases ==
    {"Python experience", "active TS/SCI clearance", "Top Secret clearance", "Secret clearance",
     "Security clearance", "active clearance", "data scientists / Science degree",
     "25% travel", "travel up to 50%", "No travel required", "travel not required",
     "travel required"}

\* a flag extractor in which a travel pattern wins over the no-travel phrase
build_flags_TravelWins(clean_text) ==
    LET found(S) == \E i \in 1..Len(clean_text) : clean_text[i] \in S
    IN  [requires_clearance |-> found({"active TS/SCI clearance", "Top Secret clearance",
                                      "Secret clearance", "Security clearance",
                                      "active clearance", "data scientists / Science degree"}),
         clearance_type |-> IF found({"active TS/SCI clearance", "Top Secret clearance",
                                      "data scientists / Science degree"}) THEN "TS/SCI"
                            ELSE IF found({"Secret clearance"}) THEN "Secret"
                            ELSE IF found({"Security clearance"}) THEN "Clearance"
                            ELSE "",
         requires_travel |-> found({"25% travel", "travel up to 50%", "travel required",
                                    "No travel required"}),
         travel_percent |-> IF found({"25% travel"}) THEN PyInt(25)
                            ELSE IF found({"travel up to 50%"}) THEN PyInt(50)
                            ELSE PyNone]

\* build_flags_from_jd (lines 378-429), the clearance and travel flags.  Each
\* re.search is the set of sentences its pattern matches (IGNORECASE, no word
\* boundary except around the no-travel pattern); the two percent patterns give
\* the number captured in the first sentence that matches.
build_flags_from_jd(clean_text) ==
    LET found(S) == \E i \in 1..Len(clean_text) : clean_text[i] \in S
        ts_sci == {"active TS/SCI clearance", "Top Secret clearance",
                   "data scientists / Science degree"}
        secret == {"Secret clearance", "Top Secret clearance"}
        security == {"Security clearance"}
        clearance == ts_sci \cup secret \cup security \cup {"active clearance"}
        percent_travel == ("25% travel" :> 25)
        travel_up_to == ("travel up to 50%" :> 50)
        first(M) == M[clean_text[CHOOSE i \in 1..Len(clean_text) :
                                    /\ clean_text[i] \in DOMAIN M
                                    /\ \A j \in 1..(i - 1) : clean_text[j] \notin DOMAIN M]]
        travel_percent_match ==
            IF found(DOMAIN percent_travel) THEN PyInt(first(percent_travel))
            ELSE IF found(DOMAIN travel_up_to) THEN PyInt(first(travel_up_to))
            ELSE PyNone
        no_travel_match == found({"No travel required", "travel not required"})
        travel_required_match ==
            \/ travel_percent_match # PyNone
            \/ found({"travel required", "No travel required", "25% travel"})
    IN  [requires_clearance |-> found(clearance),
         clearance_type |-> IF found(ts_sci) THEN "TS/SCI"
                            ELSE IF found(secret) THEN "Secret"
                            ELSE IF found(security) THEN "Clearance"
                            ELSE "",
         requires_travel |-> IF no_travel_match THEN FALSE ELSE travel_required_match,
         travel_percent |-> travel_percent_match]

InitFlags ==
    /\ Quiet
    /\ ab = NoArbitration
    /\ inv = NoInvocation
    /\ norm = NoNormalisation
    /\ wr = NoWrite
    /\ art = NoArtifact
    /\ \E clean_text \in UNION {[1..n -> Phrases] : n \in 0..MaxPhrases} :
        txt = [NoText EXCEPT !.text = clean_text]

\* line 663: the flags of a cleaned description are built
BuildFlags ==
    /\ txt.calls = 0
    /\ txt' = [txt EXCEPT !.flags = build_flags_from_jd(txt.text), !.calls = 1]
    /\ UNCHANGED <<store, pc, run, cur, clock, ab, inv, pipe, events, norm, wr, art>>

SpecFlags == InitFlags /\ [][BuildFlags]_vars

\* ----------------------------------------------------------- properties

\* C1 (as stated): an exception raised while run_scoring processes a record, in
\* the structuring step or in the scoring step, is caught at the record
\* boundary: the record ends with an error result, is counted in errors, and
\* the run goes on to the later records of the batch.
C1_ExceptionCaughtAtRecordBoundary ==
    cur.exc # "none" =>
        /\ pc \in {"record", "returned"}
        /\ cur.result = "error"
        /\ run.errors >= 1

\* an engine name of the run is not a known engine
UnknownEngineConfigured ==
    /\ run.n > 0
    /\ IF run.ab_test # <<>>
       THEN \E i \in 1..Len(run.ab_test) : run.ab_test[i] \notin KnownEngines
       ELSE run.scorer_engine \notin KnownEngines

\* C2 (as stated): with an unknown engine name run_scoring aborts before any
\* record is processed: no record is taken up, no model call is made and no
\* update is sent.
C2_UnknownEngineAbortsRun ==
    UnknownEngineConfigured => cur.id = 0 /\ run.llm = 0 /\ run.updates = 0

CandidateUnusable(cand) == cand \in {"missing", "nojson", "badjson"}

\* run_scoring ended without taking up a record
RunProcessedNothing ==
    /\ pc \in {"returned", "raised"}
    /\ run.total = 0 /\ run.scored = 0 /\ run.skipped = 0
    /\ cur.id = 0 /\ run.llm = 0 /\ run.updates = 0

\* run_pipeline ended without creating a record, calling the model or logging
PipelineProcessedNothing ==
    /\ pipe.out = "candidate"
    /\ pipe.creates = 0 /\ pipe.llm = 0 /\ pipe.logged = 0
    /\ Len(store) = pipe.size

\* C3 (as stated): in run_scoring and in run_pipeline, a missing candidate
\* record, an absent CandidateJSON or an invalid CandidateJSON ends the run
\* with no record processed, created or updated and no model call.
C3_UnusableCandidateEndsEveryEntryPoint ==
    /\ (run.n > 0 /\ CandidateUnusable(run.cand)) => RunProcessedNothing
    /\ (pipe.n > 0 /\ CandidateUnusable(pipe.cand)) => PipelineProcessedNothing

\* C3 (amended): run_scoring ends with no record processed when the candidate
\* record is missing or its CandidateJSON is absent or invalid; run_pipeline
\* ends so when the candidate record is missing.
C3_UnusableCandidateEndsRun ==
    /\ (run.n > 0 /\ CandidateUnusable(run.cand)) => RunProcessedNothing
    /\ (pipe.n > 0 /\ pipe.cand = "missing") => PipelineProcessedNothing

\* C3: a run_scoring execution found a CandidateJSON that is not JSON and
\* returned with one error and nothing processed
C3_Witness ==
    /\ run.n > 0 /\ run.cand = "badjson"
    /\ pc = "returned" /\ run.errors = 1 /\ run.total = 0 /\ run.llm = 0

\* the response is an object holding every required key of the scorer
ResponseValid(r) ==
    /\ r.form \in {"exact", "embedded"}
    /\ r.val.t = "dict"
    /\ ScorerRequiredKeys \subseteq DOMAIN r.val.v

\* the response is a text that is not such an object
ResponseInvalid(r) == r.form # "raise" /\ ~ResponseValid(r)

\* C4 (as stated): in an engine invocation an invalid first response (not
\* parsable, or lacking a required key) is followed by exactly one more call;
\* a second invalid response gives the error result; there is never a third
\* call; a valid first response is followed by no second call.
C4_RetryExactlyOnce ==
    (inv.out # "none" /\ inv.engine \in KnownEngines) =>
        /\ inv.calls <= 2
        /\ ResponseValid(inv.first) => inv.calls = 1 /\ inv.out = "scored"
        /\ ResponseInvalid(inv.first) => inv.calls = 2
        /\ (ResponseInvalid(inv.first) /\ ResponseInvalid(inv.second)) => inv.out = "error"

\* the structuring step of the current record is over
PastStructuring == cur.id # 0 /\ pc # "struct" /\ cur.result # "skipped"

\* the structurer answered with a text that is not an object holding every
\* required key
StructReplyInvalid(r) ==
    /\ r.form # "raise"
    /\ ~(/\ r.form \in {"exact", "embedded"}
         /\ r.val.t = "dict"
         /\ StructRequiredKeys \subseteq DOMAIN r.val.v)

\* the fallback object the specification describes, for a record with these fields
ExpectedFallback(fields) ==
    PyDict([job_title |-> IF fields.JobTitle # PyNone THEN fields.JobTitle ELSE fields.Title,
            company |-> PyNone, location |-> PyNone,
            remote_status |-> PyStr(<<"Unknown">>), seniority |-> PyStr(<<"Unknown">>),
            apply_type |-> PyStr(<<"Unknown">>), requirements |-> PyList(<<>>),
            responsibilities |-> PyList(<<>>), keywords |-> PyList(<<>>),
            tech_stack |-> PyList(<<>>),
            needs_human_input |-> PyList(<<PyStr(<<"JOBJSON_PARSE_FAILED">>)>>)])

\* C5: for a record that reaches the structuring step without a usable cached
\* JobJSON the structuring model is called exactly once in the pass, never
\* again; when its response is not parsable or lacks a required key the
\* structured object is the fallback object.
C5_StructurerCalledOnceThenFallback ==
    /\ cur.structCalls <= 1
    /\ (PastStructuring /\ NeedsStructuring(cur.fields)) => cur.structCalls = 1
    /\ (PastStructuring /\ NeedsStructuring(cur.fields) /\ StructReplyInvalid(cur.structReply))
         => cur.parsed = ExpectedFallback(cur.fields)

\* C5: a titled record whose structuring response lacked a key went through
\* the pass with one structuring call and the fallback object
C5_Witness ==
    /\ PastStructuring /\ NeedsStructuring(cur.fields)
    /\ cur.fields.Title = PyStr(<<"Dev">>)
    /\ cur.structReply = JsonExact(StructDocMissingKey)
    /\ cur.structCalls = 1
    /\ cur.parsed = ExpectedFallback(cur.fields)
    /\ cur.result = "scored"

HoldsObject(j) == j.form = "exact" /\ j.val.t = "dict" /\ DOMAIN j.val.v # {}

C7_CachedTextReused ==
    (cur.id # 0 /\ cur.result # "skipped" /\ Strip(cur.fields.JobDescriptionText) # <<>>) =>
        /\ cur.cleanCalls = 0
        /\ "JobDescriptionText" \notin cur.touched
        /\ cur.text = Strip(cur.fields.JobDescriptionText)
        /\ cur.cleaned = Strip(cur.fields.JobDescriptionText)

\* C8 (as stated): a record whose JobDescriptionRaw cleans to the empty text is
\* marked Needs JD with a skip reason, its result is skipped, and no
\* structuring or scoring call is made for it.
C8_EmptyAfterCleaningIsSkipped ==
    (cur.id # 0 /\ clean_html_to_text(cur.fields.JobDescriptionRaw) = <<>>) =>
        /\ cur.result = "skipped"
        /\ cur.structCalls = 0 /\ cur.scoreCalls = 0
        /\ (~run.dry_run /\ run.rej = {}) =>
              store[cur.id].Status = "Needs JD" /\ store[cur.id].SkipReason # ""

\* the record is Scored, Needs JD or Failed
Terminal(fields) ==
    \/ fields.FitScore # 0
    \/ fields.Status = "Needs JD"
    \/ fields.ScoringStatus = "FAILED"

\* C9 (as stated): a record that an earlier pass left Scored, Needs JD or Failed
\* gets no model call and no write in a later pass.
C9_TerminalStatesAbsorbing ==
    (cur.id # 0 /\ Terminal(cur.fields)) =>
        cur.structCalls = 0 /\ cur.scoreCalls = 0 /\ cur.calls = 0

\* the engines whose result is flagged as a hard-gate failure
ABFailing == {e \in DOMAIN ab.results : is_hard_gate_failure(ab.results[e], e)}

\* C10: when two or more engines produced a result and exactly one of them is
\* flagged as a hard-gate failure, select_ab_winner returns that engine.
C10_SoleGateFailureWins ==
    (ab.done /\ Cardinality(DOMAIN ab.results) >= 2 /\ Cardinality(ABFailing) = 1) =>
        ab.winner \in ABFailing

\* C10: v1 alone fails a gate with fit 1, perfecter_v1 scores 4, v1 wins
C10_Witness ==
    /\ ab.done
    /\ DOMAIN ab.results = {"perfecter_v1", "v1"}
    /\ ABFailing = {"v1"}
    /\ ab.results["perfecter_v1"].fit_score = 4
    /\ ab.winner = "v1"

\* the engine kept for the current record is flagged as a hard-gate failure
WinnerFailsGate ==
    /\ cur.result = "scored" /\ run.ab_test # <<>>
    /\ cur.winner \in DOMAIN cur.results
    /\ is_hard_gate_failure(cur.results[cur.winner], cur.winner)

\* C11 (as stated): when the arbitration winner of a record is an engine
\* flagged as a hard-gate failure, the next action taken from it is Skip, and
\* Skip is the NextAction persisted whenever the store accepts the write.
C11_GateFailureWinnerSkips ==
    WinnerFailsGate =>
        /\ cur.results[cur.winner].next_action = "Skip"
        /\ (~run.dry_run /\ "NextAction" \notin run.rej) => store[cur.id].NextAction = "Skip"

\* the first engine of the invocation order l that belongs to S
FirstOf(l, S) == l[CHOOSE i \in 1..Len(l) : l[i] \in S /\ \A j \in 1..(i - 1) : l[j] \notin S]

\* C12: when every engine that produced a result is flagged as a hard-gate
\* failure, select_ab_winner returns perfecter_v1 if it is one of them, and
\* otherwise the first of them in invocation order.
C12_AllGateFailuresPreferPerfecter ==
    (ab.done /\ DOMAIN ab.results # {} /\ ABFailing = DOMAIN ab.results) =>
        ab.winner = (IF "perfecter_v1" \in ABFailing THEN "perfecter_v1"
                     ELSE FirstOf(ab.engines, ABFailing))

\* C12: v1 was invoked first, both engines fail a gate, perfecter_v1 wins
C12_Witness ==
    /\ ab.done
    /\ ab.engines = <<"v1", "perfecter_v1">>
    /\ ABFailing = {"v1", "perfecter_v1"}
    /\ ab.winner = "perfecter_v1"

\* the highest fit score among the results of the arbitration
TopFit == CHOOSE n \in {ab.results[e].fit_score : e \in DOMAIN ab.results} :
              \A e \in DOMAIN ab.results : ab.results[e].fit_score <= n

\* the engines whose result has the highest fit score
TopEngines == {e \in DOMAIN ab.results : ab.results[e].fit_score = TopFit}

\* C13: when no engine is flagged as a hard-gate failure, select_ab_winner
\* returns an engine with the highest fit score, the only one when the score
\* is not shared, and perfecter_v1 when it is among the engines that share it.
C13_HighestFitWinsTiePrefersPerfecter ==
    (ab.done /\ DOMAIN ab.results # {} /\ ABFailing = {}) =>
        /\ ab.winner \in TopEngines
        /\ "perfecter_v1" \in TopEngines => ab.winner = "perfecter_v1"

\* C13: v1 was invoked first, v1 and perfecter_v1 both score 3 without a gate
\* failure, perfecter_v1 wins the tie
C13_Witness ==
    /\ ab.done
    /\ ab.engines = <<"v1", "perfecter_v1">>
    /\ DOMAIN ab.results = {"v1", "perfecter_v1"}
    /\ ABFailing = {}
    /\ ab.results["v1"].fit_score = 3 /\ ab.results["perfecter_v1"].fit_score = 3
    /\ ab.winner = "perfecter_v1"

\* the raw fit-score value the routine of the normalisation reads
NormRawFit ==
    IF norm.routine = "score_job_description" THEN DictGet(norm.score, "FitScore", PyNone)
    ELSE FitScoreRaw(norm.score)

\* the value is absent, or is not a number: null, a list, an object, or a text
\* that is not an integer literal
NonNumeric(x) ==
    \/ x.t \in {"none", "list", "dict"}
    \/ x.t = "str" /\ ~(Len(Strip(x.v)) = 1 /\ Strip(x.v)[1] \in DOMAIN IntLiteral)

\* C14 (as stated): whatever the raw fit-score value of a response, the
\* normalisation does not raise and gives an integer from 1 to 5, which is 3
\* when the value is absent or not a number.
C14_FitScoreAlwaysNormalized ==
    norm.done =>
        /\ norm.exc # "OverflowError"
        /\ norm.exc = "none" => norm.fit \in 1..5
        /\ (norm.exc = "none" /\ NonNumeric(NormRawFit)) => norm.fit = 3

\* the next action the routine of the normalisation reads from the response
NormRawAction ==
    IF norm.routine = "score_job_description" THEN DictGet(norm.score, "NextAction", PyNone)
    ELSE DictGet(norm.score, "next_action", PyNone)

\* the value is one of the four canonical literals, surrounding blanks aside
Canonical(x) == x.t = "str" /\ Len(Strip(x.v)) = 1 /\ Strip(x.v)[1] \in ValidActions

\* C15 (as stated): in every scoring routine, a model-supplied next action
\* that is not a canonical literal (a missing or non-text value included)
\* gives the next action mapped from the normalised fit score.
C15_NonCanonicalActionMappedFromFit ==
    (norm.done /\ ~Canonical(NormRawAction) /\ norm.exc # "OverflowError") =>
        /\ norm.exc = "none"
        /\ norm.action = FitToAction(norm.fit)

\* C16 (as stated): every NextAction value written to a job record, by the
\* ad-hoc submission or by scoring, is one of the four canonical literals; a
\* record nobody wrote a NextAction to holds the blank.
C16_NextActionAlwaysCanonical ==
    \A i \in 1..Len(store) : store[i].NextAction \in ValidActions \cup {""}

\* C17 (as stated): no update submitted while a record is scored names a field
\* that is absent from the field set sampled at the start of the run.
C17_UpdatesWithinSampledFields ==
    cur.id # 0 => cur.touched \subseteq run.valid_fields

\* the fields of the payload that changed record 1
WrittenFields == {f \in DOMAIN store[1] : store[1][f] # FreshRecord(1)[f]}

\* the call logged the loss of the field: a FIELD_DROP line, or the warning
\* that carries the store's refusal
LossLogged(f) == f \in wr.dropped \/ (wr.attempts # <<>> /\ ~wr.attempts[1].ok)

\* C18 (as stated): when the table lacks ScoringStatus and nothing else of the
\* payload, an update holding ScoringStatus and other fields ends with exactly
\* the other fields written, the loss logged, and the writer returning true.
C18_MissingScoringStatusPartialSuccess ==
    LET others == DOMAIN wr.fields_dict \ {"ScoringStatus"}
    IN  (/\ wr.done /\ ~wr.dry_run
         /\ "ScoringStatus" \in DOMAIN wr.fields_dict
         /\ wr.rej = {"ScoringStatus"}
         /\ others # {} /\ others \subseteq TableFieldNames) =>
            /\ WrittenFields = others
            /\ LossLogged("ScoringStatus")
            /\ wr.ok

\* the payload without the two free-text status fields
WithoutStatusText(payload) ==
    [k \in DOMAIN payload \ {"ScoringStatus", "SkipReason"} |-> payload[k]]

\* C19: in a run that writes, one safe_update call issues at most two store
\* updates; the second is issued exactly when the first was refused and the
\* first payload without ScoringStatus and SkipReason is not empty and is not
\* the first payload, and that is its payload; the call returns true exactly
\* when one of its updates was accepted.  A dry run issues none.
C19_AtMostOneRetryWithoutStatusText ==
    wr.done =>
        /\ Len(wr.attempts) <= 2
        /\ wr.dry_run => wr.attempts = <<>>
        /\ Len(wr.attempts) = 2 <=>
              /\ wr.attempts # <<>> /\ ~wr.attempts[1].ok
              /\ DOMAIN WithoutStatusText(wr.attempts[1].fields) # {}
              /\ WithoutStatusText(wr.attempts[1].fields) # wr.attempts[1].fields
        /\ Len(wr.attempts) = 2 =>
              wr.attempts[2].fields = WithoutStatusText(wr.attempts[1].fields)
        /\ ~wr.dry_run => (wr.ok <=> \E i \in 1..Len(wr.attempts) : wr.attempts[i].ok)

\* C19: the scored-record payload was refused for ScoringStatus, resubmitted
\* without it and accepted
C19_Witness ==
    /\ wr.done /\ ~wr.dry_run /\ wr.rej = {"ScoringStatus"}
    /\ Len(wr.attempts) = 2
    /\ DOMAIN wr.attempts[1].fields = {"FitScore", "Status", "ScoringStatus", "RunID"}
    /\ DOMAIN wr.attempts[2].fields = {"FitScore", "Status", "RunID"}
    /\ wr.attempts[2].ok /\ wr.ok
    /\ store[1].FitScore = 4 /\ store[1].ScoringStatus = ""


\* the field groups the persist step of score_job_record owes the scored record
\* of a writing run: the core group, NextAction, the non-empty texts of the
\* winner, and ScoringAB in A/B mode
OwedGroups ==
    LET r == cur.results[cur.winner]
    IN  {"FitScore", "Status", "ScoringStatus", "RunID", "NextAction"}
        \cup (IF join_lines(r.fit_reasons) # <<>> THEN {"FitReasons"} ELSE {})
        \cup (IF join_lines(r.gaps_risks) # <<>> THEN {"GapsRisks"} ELSE {})
        \cup (IF run.ab_test # <<>> THEN {"ScoringAB"} ELSE {})

\* C20: after a record is scored in a non-dry run every field-group write (the
\* core group, NextAction, the non-empty optional texts, ScoringAB in A/B mode;
\* steps A1, A2, B and C of run_pipeline) is attempted, whatever the store
\* refused of the earlier groups of the same record
C20_EveryGroupWriteAttempted ==
    /\ (cur.id # 0 /\ cur.result = "scored" /\ ~run.dry_run) => OwedGroups \subseteq cur.touched
    /\ pipe.out = "returned" =>
          {"FitScore", "Status", "Strategy", "NextAction"} \cup pipe.optional \subseteq pipe.tried

\* the core group of the scored record was refused, its later groups were
\* submitted and NextAction was stored
C20_Witness ==
    /\ cur.id # 0 /\ cur.result = "scored" /\ ~run.dry_run
    /\ run.rej = {"FitScore"}
    /\ store[cur.id].FitScore = 0
    /\ store[cur.id].NextAction \in ValidActions
    /\ "FitReasons" \in cur.touched


\* the update_record calls of the last step of the current record that
\* submitted the known-safe NextAction value
FallbackWrites == {i \in 1..Len(cur.attempts) : cur.attempts[i].fields = [NextAction |-> "Review"]}

\* C21: the fallback write of NextAction 'Review' is issued only after a
\* NextAction write that the store refused because the value is not an option
\* of the field, and its payload is NextAction alone
C21_FallbackOnlyForInvalidOption ==
    \A i \in FallbackWrites :
        /\ i > 1
        /\ DOMAIN cur.attempts[i - 1].fields = {"NextAction"}
        /\ ~cur.attempts[i - 1].ok
        /\ run.why = "INVALID_MULTIPLE_CHOICE_OPTIONS"


\* C22: in a writing run every record whose processing ends with an error
\* result, invalid model output after the one retry included, carries the
\* failure marker: ScoringStatus FAILED with its reason (the store refusing
\* nothing)
C22_ErrorResultLeavesFailedMarker ==
    (cur.id # 0 /\ cur.result = "error" /\ ~run.dry_run /\ run.rej = {}) =>
        /\ store[cur.id].ScoringStatus = "FAILED"
        /\ store[cur.id].SkipReason # ""


\* C23: a submission of a JobURL that a record of the Jobs table already has
\* creates nothing, so no two job records share a JobURL
C23_NoTwoRecordsShareJobURL ==
    \A i, j \in 1..Len(store) : i # j => store[i].JobURL # store[j].JobURL


C25_ScoredRecordCarriesRunFields ==
    (cur.id # 0 /\ cur.result = "scored" /\ ~run.dry_run) =>
        /\ store[cur.id].RunID = run.run_id
        /\ store[cur.id].FitScore = cur.results[cur.winner].fit_score
        /\ store[cur.id].Status = "Scored"


\* C26: two distinct executions of run_scoring have distinct run identifiers,
\* whatever the time between their starts
C26_RunIdsDistinct ==
    run.n >= 2 => run.run_id # run.prev_id


\* C27: over a batch of n records the fixed delay occurs n-1 times (0 for an
\* empty batch): before record i starts, i-1 delays have occurred (none before
\* the first), and none follows the last record
C27_DelayBetweenRecordsOnly ==
    /\ pc \in {"record", "struct", "score"} => run.sleeps = run.i - 1
    /\ pc = "returned" => run.sleeps = (IF run.total = 0 THEN 0 ELSE run.total - 1)

\* a run over two records has returned
C27_Witness ==
    /\ pc = "returned"
    /\ run.total = 2
    /\ run.i = 3
    /\ run.sleeps = 1


C29_ConfidenceWithinUnitInterval ==
    (norm.done /\ norm.routine = "run_single_scorer" /\ norm.exc = "none") =>
        \/ norm.confidence = PyStr(<<"N/A">>)
        \/ norm.confidence.t = "float" /\ norm.confidence.v >= 0 /\ norm.confidence.v <= 10


\* C30: the text normalizer is idempotent: for every text t,
\* clean_html_to_text(clean_html_to_text(t)) = clean_html_to_text(t), escaped
\* markup entities included
C30_CleanIdempotent ==
    txt.calls = 2 => txt.text = txt.before


\* the sentences of the vocabulary that state each clearance level, and the
\* clearance type C31 gives a description
SaysTsSci == {"active TS/SCI clearance", "Top Secret clearance"}
SaysSecret == {"Secret clearance", "Top Secret clearance"}
SaysSecurity == {"Security clearance"}
TextHas(S) == \E i \in 1..Len(txt.text) : txt.text[i] \in S

\* C31: clearance_type is 'TS/SCI' whenever a TS/SCI or top-secret phrase is
\* present, otherwise 'Secret' when 'secret clearance' is present, otherwise
\* 'Clearance' when 'security clearance' is present, otherwise empty; and
\* requires_clearance is true whenever clearance_type is not empty
C31_ClearanceTypePrecedence ==
    txt.calls = 1 =>
        /\ txt.flags.clearance_type =
              (IF TextHas(SaysTsSci) THEN "TS/SCI"
               ELSE IF TextHas(SaysSecret) THEN "Secret"
               ELSE IF TextHas(SaysSecurity) THEN "Clearance"
               ELSE "")
        /\ txt.flags.clearance_type # "" => txt.flags.requires_clearance

\* the travel percentages a description states
StatedPercents ==
    {25 : i \in {j \in 1..Len(txt.text) : txt.text[j] = "25% travel"}}
    \cup {50 : i \in {j \in 1..Len(txt.text) : txt.text[j] = "travel up to 50%"}}

\* C32: requires_travel is false whenever an explicit no-travel phrase is
\* present, whatever other travel patterns are; otherwise a stated
\* 'N% travel' or 'travel up to N%' makes requires_travel true and
\* travel_percent N
C32_NoTravelOverridesTravelPercent ==
    txt.calls = 1 =>
        /\ TextHas({"No travel required", "travel not required"}) => ~txt.flags.requires_travel
        /\ (~TextHas({"No travel required", "travel not required"}) /\ StatedPercents # {}) =>
              /\ txt.flags.requires_travel
              /\ txt.flags.travel_percent.t = "int"
              /\ txt.flags.travel_percent.v \in StatedPercents

\* a description that states a travel percentage and that no travel is required
C32_Witness ==
    /\ txt.calls = 1
    /\ TextHas({"No travel required"})
    /\ TextHas({"25% travel"})
    /\ ~txt.flags.requires_travel


\* a step taken while a record is processed changes no other record, and the
\* current record changes only when the processing of the preceding one has ended
ScopedStep ==
    pc \in {"record", "struct", "score"} =>
        /\ Len(store') = Len(store)
        /\ \A i \in 1..Len(store) :
              store'[i] # store[i] => i = (IF pc = "record" THEN run.batch[run.i] ELSE cur.id)
        /\ cur'.id # cur.id => (pc = "record" /\ cur'.id = run.batch[run.i])

\* C33: within a run every store write issued while a record is processed
\* targets that record, and the records are taken one after the other: a new
\* record is begun only when the processing of the preceding one has ended
C33_WritesScopedToCurrentRecord == [][ScopedStep]_vars

\* the second record of a batch is being written to, after the first one was
C33_Witness ==
    /\ pc = "score"
    /\ run.i = 2
    /\ cur.calls >= 1
    /\ run.updates > cur.calls


\* the conditions C34 lists for a result r of the engine e
GateFailureAsStated(r, e) ==
    LET debug == DictGet(r.raw_score, "debug", EmptyDict)
    IN  \/ ~Truthy(DictGet(debug, "hard_gates_passed", PyInt(1)))
        \/ r.fit_score = 1 /\ Truthy(DictGet(debug, "hard_gate_fail_reasons", PyList(<<>>)))
        \/ e = "v1" /\ r.fit_score = 1
              /\ HasGateKeyword(r.gaps_risks.v \o r.needs_human_input.v)

\* C34: is_hard_gate_failure is true exactly when, for any engine, the debug
\* payload marks the gates as not passed, or the fit score is 1 with non-empty
\* gate-failure reasons, or (v1) the fit score is 1 and the gaps and
\* needs-human-input text holds a gate keyword
C34_GateFailureExactly ==
    ab.done =>
        \A e \in DOMAIN ab.results :
            is_hard_gate_failure(ab.results[e], e) <=> GateFailureAsStated(ab.results[e], e)


\* C35: run_pipeline appends each event after the store write it reports has
\* succeeded, in the order INGESTED (record created), PARSED (Status Parsed
\* written), SCORED (FitScore and Status Scored written); no SCORED event exists
\* for a record whose FitScore write failed
C35_EventsFollowWrites ==
    \A i \in 1..Len(events) :
        LET job == events[i].job
        IN  /\ job \in 1..Len(store)
            /\ events[i].type = "PARSED" =>
                    /\ i > 1 /\ events[i - 1] = [job |-> job, type |-> "INGESTED"]
                    /\ store[job].Status \in {"Parsed", "Scored"}
            /\ events[i].type = "SCORED" =>
                    /\ i > 1 /\ events[i - 1] = [job |-> job, type |-> "PARSED"]
                    /\ store[job].Status = "Scored"


\* C36: a record whose cleaned description is shorter than CLEAN_MIN_LEN is not
\* eligible for scoring: no scoring model call is made for it and no FitScore is
\* written for it in that pass
C36_ShortDescriptionNotScored ==
    (cur.id # 0 /\ cur.text # <<>> /\ StrLen(cur.text) < CLEAN_MIN_LEN) =>
        /\ cur.scoreCalls = 0
        /\ "FitScore" \notin cur.touched


\* the three counters of the run r
Counted(r) == r.scored + r.skipped + r.errors

\* one step of a run, seen from its counters; the run reaches its loop, and the
\* return after it, when the candidate profile was loaded
CountingStep ==
    /\ run'.n = run.n =>
            /\ run'.scored >= run.scored
            /\ run'.skipped >= run.skipped
            /\ run'.errors >= run.errors
            /\ Counted(run') - Counted(run) = run'.i - run.i
            /\ run'.i - run.i \in {0, 1}
    /\ (pc' = "returned" /\ LoadCandidate(run'.cand) = "ok") => Counted(run') = run'.total

\* C37: when run_scoring returns after going through the batch, scored + skipped
\* + errors = total; each processed record increments exactly one of the three
\* counters once, and no counter decreases during the run
C37_CountersPartitionBatch == [][CountingStep]_vars

C37_Witness ==
    /\ pc = "returned"
    /\ run.total = 2
    /\ run.skipped = 1
    /\ run.scored + run.errors = 1


\* C38: in A/B mode a record's result is an error exactly when every listed
\* engine failed to produce a valid result; when at least one engine succeeded
\* the record is scored, and the winner is one of the engines that succeeded
C38_ABErrorOnlyWhenAllFail ==
    (run.ab_test # <<>> /\ cur.id # 0 /\ cur.result # "none" /\ cur.inv.engine # "") =>
        /\ cur.result = "error" <=> DOMAIN cur.results = {}
        /\ DOMAIN cur.results # {} =>
                cur.result = "scored" /\ cur.winner \in DOMAIN cur.results


\* the accepted update_record calls of the current record's last step that
\* carry NextAction
NextActionWrites ==
    {i \in 1..Len(cur.attempts) :
        cur.attempts[i].ok /\ "NextAction" \in DOMAIN cur.attempts[i].fields}

\* C39: for every record reported as scored in a non-dry run, the next action
\* of the returned result equals the NextAction value last written to the
\* record during the pass
C39_ReturnedActionIsWrittenAction ==
    (cur.id # 0 /\ cur.result = "scored" /\ ~run.dry_run) =>
        \A i \in NextActionWrites :
            (\A j \in NextActionWrites : j <= i) =>
                cur.results[cur.winner].next_action = cur.attempts[i].fields.NextAction


\* the orderings of the engine list l
Orderings(l) ==
    {p \in [1..Len(l) -> {l[i] : i \in 1..Len(l)}] :
        \A i, j \in 1..Len(l) : i # j => p[i] # p[j]}

====
